---- MODULE Spec2Model ----
(***************************************************************************)
(* A model of agent_based_macro: the money/inventory ledger of Agent       *)
(* (base_simulation.py), the order book of MarketBase / Market (orders.py, *)
(* base_simulation.py) and the simulation-level money operations of        *)
(* BaseSimulation (add_entity, PayWages, pay_taxes).                       *)
(*                                                                         *)
(* Python exceptions are modelled by threading a record                    *)
(*   [ag |-> the agents, raised |-> "none" or the exception's class]       *)
(* through the operators: once raised is set, the rest of the handler is   *)
(* skipped, and whatever was assigned before the raise stays assigned.     *)
(***************************************************************************)
EXTENDS Integers, Sequences, FiniteSets, TLC

\* ---------------------------------------------------------------- bounds
\* Largest amount (and price) passed to a call made directly on an agent, and
\* largest starting balance of that agent.
MaxAmount == 2
\* Such an agent's balances are explored inside [-MaxBalance, MaxBalance].
MaxBalance == 2
\* Number of orders ever created (order ids are -1 .. -MaxOrders).
MaxOrders == 3

VARIABLES
    agents,        \* GID -> the Agent object's fields (and its class)
    BuyList,       \* MarketBase.BuyList.Orders
    SellList,      \* MarketBase.SellList.Orders
    LastPrice,     \* MarketBase.LastPrice
    LastTime,      \* MarketBase.LastTime
    GLastOrderID,  \* orders.GLastOrderID
    Accounting,    \* MockMarket.Accounting, emptied before each operation
    Markets,       \* commodity id -> the order book of that Market entity
    NamedOrders,   \* GID -> Agent.NamedOrders
    Submitted,     \* for each order created for a named submission, in the
                   \* order of creation: who submitted it, where and as what
    Time,          \* Simulation.Time, in ticks
    TimeMode,      \* Simulation.TimeMode
    IsPaused,      \* Simulation.IsPaused
    EventList,     \* Simulation.EventList
    ClientCommands, \* Simulation.ClientCommands
    ClientMessages, \* Simulation.ClientMessages
    Entities,      \* GID -> whether GEntityDict has the entity, and its fields
    G_LAST_JITTER, \* utils.G_LAST_JITTER
    JitterCalls,   \* number of jitter_time calls since the last reset_jitter
    Queued,        \* number of queue_event calls so far
    LastFired,     \* the event whose callback ran last, if any has
    Done,          \* what the last call did
    Holders,       \* ActionDataRequestHolder objects: the dict each refers to
    DataDicts      \* the dicts the holders refer to as DataDict

vars == <<agents, BuyList, SellList, LastPrice, LastTime, GLastOrderID,
          Accounting, Markets, NamedOrders, Submitted,
          Time, TimeMode, IsPaused, EventList, ClientCommands, ClientMessages,
          Entities, G_LAST_JITTER, JitterCalls, Queued, LastFired, Done,
          Holders, DataDicts>>

ledgerVars == <<agents>>
bookVars == <<BuyList, SellList, LastPrice, LastTime, GLastOrderID, Accounting>>
namedVars == <<Markets, NamedOrders, Submitted>>
schedVars == <<Time, TimeMode, IsPaused, EventList, ClientCommands, ClientMessages,
               Entities, G_LAST_JITTER, JitterCalls, Queued, LastFired, Done>>
requestVars == <<Holders, DataDicts>>

\* Python's None and a present value, for the fields that may hold either.
None == <<>>
Some(x) == <<x>>

\* ------------------------------------------------------------ entity ids
\* entity.add_entity hands out 0, 1, 2, ...; the Simulation is entity 0 and
\* BaseSimulation.__init__ creates the CentralGovernment next.
SIMULATION_ID == 0
CentralGovernmentID == SIMULATION_ID + 1
\* The agents admitted after the government, in this order.
JobGuaranteeID == CentralGovernmentID + 1
HouseholdID == JobGuaranteeID + 1
FirmID == HouseholdID + 1
FirmBID == FirmID + 1

ReserveTypes == {"NONE", "ORDERS", "TAX", "WAGES"}

\* ------------------------------------------------------------- InventoryInfo
NewInventoryInfo == [Amount |-> 0, Cost |-> 0, Reserved |-> 0]

\* Agent.__init__ (and the subclasses' __init__, which set the class-specific
\* fields).
NewAgent(class, money_balance) ==
    [Class |-> class,
     Money |-> money_balance,
     ReserveMoney |-> 0,
     ReserveWages |-> 0,
     ReserveTax |-> 0,
     ReserveOrders |-> 0,
     IsCentralGovernment |-> (class = "JobGuarantee"),
     Inventory |-> NewInventoryInfo]

Ok(ag) == [ag |-> ag, raised |-> "none"]
Raise(ag, err) == [ag |-> ag, raised |-> err]

\* The end of Agent.spend_money with the aggregate reserve left alone.
SpendTail_money_only(a, amount) ==
    [a EXCEPT !.Money = @ - amount]

\* ------------------------------------------------------- Agent: money
\* The last two statements of Agent.spend_money, which every branch that does
\* not raise falls through to.
SpendTail(a, amount) ==
    [a EXCEPT !.Money = @ - amount, !.ReserveMoney = @ - amount]

\* The body of the `if ReserveType.NONE == from_reserve` branch.
SpendNoneBranch(a, amount) ==
    [a EXCEPT !.Money = @ - amount]

RECURSIVE receive_money(_, _, _)
RECURSIVE spend_money(_, _, _, _)

\* CentralGovernment.spend_money: reserves are ignored.
CentralGovernment_spend_money(ag, g, amount) ==
    Ok([ag EXCEPT ![g].Money = @ - amount])

\* Agent.spend_money.
Agent_spend_money(ag, g, amount, from_reserve) ==
    LET a == ag[g] IN
    IF amount < 0
    THEN IF from_reserve # "NONE"
         THEN Raise(ag, "ValueError")
         ELSE receive_money(ag, g, -amount)
    ELSE IF amount > a.Money
    THEN Raise(ag, "NoMoneyError")
    ELSE IF from_reserve = "NONE"
    THEN IF amount + a.ReserveMoney > a.Money
         THEN Raise(ag, "NoFreeMoneyError")
         ELSE Ok([ag EXCEPT ![g] = SpendTail(SpendNoneBranch(a, amount), amount)])
    ELSE IF from_reserve = "ORDERS"
    THEN IF amount > a.ReserveOrders
         THEN Raise(ag, "NoFreeMoneyError")
         ELSE Ok([ag EXCEPT ![g] =
                    SpendTail([a EXCEPT !.ReserveOrders = @ - amount], amount)])
    ELSE IF from_reserve = "WAGES"
    THEN IF amount > a.ReserveWages
         THEN Raise(ag, "NoFreeMoneyError")
         ELSE Ok([ag EXCEPT ![g] =
                    SpendTail([a EXCEPT !.ReserveWages = @ - amount], amount)])
    ELSE IF from_reserve = "TAX"
    THEN IF amount > a.ReserveTax
         THEN Raise(ag, "NoFreeMoneyError")
         ELSE Ok([ag EXCEPT ![g] =
                    SpendTail([a EXCEPT !.ReserveTax = @ - amount], amount)])
    ELSE Raise(ag, "ValueError")

\* spend_money as dispatched on the object's class.  JobGuarantee.spend_money
\* passes the amount on to the central government and drops the bucket.
spend_money(ag, g, amount, from_reserve) ==
    IF ag[g].Class = "JobGuarantee"
    THEN CentralGovernment_spend_money(ag, CentralGovernmentID, amount)
    ELSE IF ag[g].Class = "CentralGovernment"
    THEN CentralGovernment_spend_money(ag, g, amount)
    ELSE Agent_spend_money(ag, g, amount, from_reserve)

\* Agent.receive_money with the credit made before the test of the sign.
Agent_receive_money_credit_first(ag, g, amount) ==
    IF amount < 0
    THEN spend_money([ag EXCEPT ![g].Money = @ + amount], g, -amount, "NONE")
    ELSE Ok([ag EXCEPT ![g].Money = @ + amount])

\* Agent.receive_money.
Agent_receive_money(ag, g, amount) ==
    IF amount < 0
    THEN spend_money(ag, g, -amount, "NONE")
    ELSE Ok([ag EXCEPT ![g].Money = @ + amount])

\* receive_money as dispatched on the object's class.
receive_money(ag, g, amount) ==
    IF ag[g].Class = "JobGuarantee"
    THEN Agent_receive_money(ag, CentralGovernmentID, amount)
    ELSE Agent_receive_money(ag, g, amount)

\* A guard that lets every increase of the reserves through.
ReserveBeyondMoney_never(a, change) == FALSE

\* The test that guards an increase of the reserves.
ReserveBeyondMoney(a, change) ==
    (~a.IsCentralGovernment) /\ (change + a.ReserveMoney > a.Money)

\* Agent.change_reserves.
change_reserves(ag, g, change, reserve_type) ==
    LET a == ag[g] IN
    IF change > 0
    THEN IF ReserveBeyondMoney(a, change)
         THEN Raise(ag, "NoFreeMoneyError")
         ELSE IF reserve_type = "ORDERS"
         THEN Ok([ag EXCEPT ![g].ReserveOrders = @ + change,
                            ![g].ReserveMoney = @ + change])
         ELSE IF reserve_type = "TAX"
         THEN Ok([ag EXCEPT ![g].ReserveTax = @ + change,
                            ![g].ReserveMoney = @ + change])
         ELSE IF reserve_type = "WAGES"
         THEN Ok([ag EXCEPT ![g].ReserveWages = @ + change,
                            ![g].ReserveMoney = @ + change])
         ELSE Raise(ag, "ValueError")
    ELSE IF reserve_type = "ORDERS"
         THEN IF a.ReserveOrders >= -change
              THEN Ok([ag EXCEPT ![g].ReserveOrders = @ + change,
                                 ![g].ReserveMoney = @ + change])
              ELSE Raise(ag, "ReserveError")
         ELSE IF reserve_type = "WAGES"
         THEN IF a.ReserveWages >= -change
              THEN Ok([ag EXCEPT ![g].ReserveWages = @ + change,
                                 ![g].ReserveMoney = @ + change])
              ELSE Raise(ag, "ReserveError")
         ELSE IF reserve_type = "TAX"
         THEN IF a.ReserveTax >= -change
              THEN Ok([ag EXCEPT ![g].ReserveTax = @ + change,
                                 ![g].ReserveMoney = @ + change])
              ELSE Raise(ag, "ReserveError")
         ELSE Raise(ag, "ValueError")

\* ------------------------------------------------------ InventoryInfo
OkInv(inv) == [inv |-> inv, raised |-> "none", cogs |-> 0]
RaiseInv(inv, err) == [inv |-> inv, raised |-> err, cogs |-> 0]

\* InventoryInfo.add_inventory.
add_inventory(inv, amount, cost) ==
    IF amount < 0
    THEN RaiseInv(inv, "ValueError")
    ELSE OkInv([inv EXCEPT !.Amount = @ + amount, !.Cost = @ + cost])

\* InventoryInfo.change_reserves.  The test for a negative reserve comes
\* after the assignment.
Inventory_change_reserves(inv, amount) ==
    IF amount + inv.Reserved > inv.Amount
    THEN RaiseInv(inv, "ValueError")
    ELSE LET inv2 == [inv EXCEPT !.Reserved = @ + amount] IN
         IF inv2.Reserved < 0
         THEN RaiseInv(inv2, "ValueError")
         ELSE OkInv(inv2)

\* Rounding of n/d to the nearest integer, a tie to the greater one.
RoundHalfUp(n, d) ==
    LET q == n \div d
        r == n % d
    IN  IF 2 * r < d THEN q ELSE q + 1

\* Python's round() of the float n/d: to the nearest integer, ties to even.
RoundHalfEven(n, d) ==
    LET q == n \div d
        r == n % d
    IN  IF 2 * r < d THEN q
        ELSE IF 2 * r > d THEN q + 1
        ELSE IF q % 2 = 0 THEN q ELSE q + 1

\* InventoryInfo.remove_inventory.
remove_inventory(inv, amount, from_reserve) ==
    IF amount < 0
    THEN RaiseInv(inv, "ValueError")
    ELSE IF amount > inv.Amount
    THEN RaiseInv(inv, "ValueError")
    ELSE IF (~from_reserve) /\ amount > inv.Amount - inv.Reserved
    THEN RaiseInv(inv, "ValueError")
    ELSE IF from_reserve /\ amount > inv.Reserved
    THEN RaiseInv(inv, "ValueError")
    ELSE LET inv2 == IF from_reserve
                     THEN [inv EXCEPT !.Reserved = @ - amount]
                     ELSE inv
             cogs == IF amount = inv2.Amount
                     THEN inv2.Cost
                     ELSE RoundHalfEven(inv2.Cost * amount, inv2.Amount)
         IN  [inv |-> [inv2 EXCEPT !.Cost = @ - cogs, !.Amount = @ - amount],
              raised |-> "none",
              cogs |-> cogs]

\* An inventory call made on agent g's lot: its effect on the agents.
OnInventory(ag, g, r) ==
    [ag |-> [ag EXCEPT ![g].Inventory = r.inv], raised |-> r.raised]

\* ------------------------------------------- Agent: market accounting
\* Agent.buy_goods.
buy_goods(ag, g, amount, payment) ==
    LET r == spend_money(ag, g, payment, "ORDERS") IN
    IF r.raised # "none"
    THEN r
    ELSE OnInventory(r.ag, g, add_inventory(r.ag[g].Inventory, amount, payment))

\* Agent.sell_goods.
sell_goods(ag, g, amount, payment) ==
    LET r == receive_money(ag, g, payment) IN
    IF r.raised # "none"
    THEN r
    ELSE OnInventory(r.ag, g, remove_inventory(r.ag[g].Inventory, amount, TRUE))

\* Agent.do_accounting_buy.
do_accounting_buy(ag, g, operation, amount, price) ==
    IF operation = "add"
    THEN change_reserves(ag, g, amount * price, "ORDERS")
    ELSE IF operation = "fill"
    THEN buy_goods(ag, g, amount, amount * price)
    ELSE IF operation = "remove"
    THEN change_reserves(ag, g, (-amount) * price, "ORDERS")
    ELSE Raise(ag, "ValueError")

\* Agent.do_accounting_sell.
do_accounting_sell(ag, g, operation, amount, price) ==
    IF operation = "add"
    THEN OnInventory(ag, g, Inventory_change_reserves(ag[g].Inventory, amount))
    ELSE IF operation = "fill"
    THEN sell_goods(ag, g, amount, amount * price)
    ELSE IF operation = "remove"
    THEN OnInventory(ag, g, Inventory_change_reserves(ag[g].Inventory, -amount))
    ELSE Raise(ag, "ValueError")

\* Agent.do_accounting.
Agent_do_accounting(ag, g, order_type, operation, amount, price) ==
    IF amount = 0
    THEN Ok(ag)
    ELSE IF order_type = "BUY"
    THEN do_accounting_buy(ag, g, operation, amount, price)
    ELSE do_accounting_sell(ag, g, operation, amount, price)

\* ===================================================================
\* The ledger on its own: calls made directly on one Agent object.
\* ===================================================================
\* The value of GLastOrderID when the module is loaded.
FirstOrderID == -1

\* The state of the order book after MarketBase.__init__, with no order
\* created yet.
\* The commodities that have a Market, the first being the one the producer
\* makes and sells.
CommodityIDs == {1, 2}

\* The names agents submit named orders under through actions.
OrderNames == {"production"}

\* The name HouseholdSector.event_market_order submits its order under (the
\* double quotes are part of the name).
MarketOrderName == "\"MarketOrder\""

\* The keys of Agent.NamedOrders: 'buy_' + name and 'sel_' + name.
NamedKey(prefix, name) == <<prefix, name>>
NamedKeys == {NamedKey(prefix, name) : prefix \in {"buy_", "sel_"},
                                       name \in OrderNames \cup {MarketOrderName}}

\* Agent.__init__ leaves NamedOrders empty (dict.get then gives None), and a
\* new Market has empty queues.
NamedInit ==
    /\ Markets = [c \in CommodityIDs |->
                    [BuyList |-> <<>>, SellList |-> <<>>,
                     LastPrice |-> None, LastTime |-> None]]
    /\ NamedOrders = [g \in CentralGovernmentID..FirmBID |-> [k \in NamedKeys |-> None]]
    /\ Submitted = <<>>

\* The entities events are addressed to, besides the Simulation itself.
EntityGIDs == {HouseholdID, FirmID}

\* The names events ask data under.
DataNames == {"JG_Wage", "Productivity"}

\* An empty ActionData: no name has a value.
NoData == [name \in DataNames |-> None]

\* What Entity.__init__ sets of the fields the scheduler uses.
NewEntity == [InDict |-> TRUE, IsDead |-> FALSE, ActionQueue |-> <<>>, ActionData |-> NoData]

\* A GID GEntityDict has no entry for.
NoEntity == [InDict |-> FALSE, IsDead |-> FALSE, ActionQueue |-> <<>>, ActionData |-> NoData]

\* What the last call did, when no call has been made.
NothingDone == [Op |-> "none"]

\* Simulation.__init__: time 0, 'sim' mode, paused, the jitter sequence reset,
\* empty queues.
SimulationInit ==
    /\ Time = 0
    /\ TimeMode = "sim"
    /\ IsPaused = TRUE
    /\ EventList = <<>>
    /\ ClientCommands = <<>>
    /\ ClientMessages = <<>>
    /\ G_LAST_JITTER = 0
    /\ JitterCalls = 0

\* The ActionDataRequestHolder objects there can be.
MaxHolders == 2
HolderIDs == 1..MaxHolders

\* The keys of a DataDict.
KeyInputs == {"foo"}

\* {} as a DataDict.
EmptyDict == [kkey \in KeyInputs |-> <<>>]

\* No holder has been constructed.  A holder refers to a dict, which it may
\* share with the holder it was constructed from: dict h is the one created
\* for holder h.
RequestInit ==
    /\ Holders = [h \in HolderIDs |-> <<>>]
    /\ DataDicts = [h \in HolderIDs |-> EmptyDict]

\* The scheduler as constructed, GEntityDict holding the entities present.
SchedInitWith(present) ==
    /\ SimulationInit
    /\ Entities = [g \in CentralGovernmentID..FirmBID |->
                        IF g \in present THEN NewEntity ELSE NoEntity]
    /\ Queued = 0
    /\ LastFired = None
    /\ Done = NothingDone
    /\ RequestInit

\* With no entity besides the Simulation.
SchedInit == SchedInitWith({})

BookInit ==
    /\ BuyList = <<>>
    /\ SellList = <<>>
    /\ LastPrice = None
    /\ LastTime = None
    /\ GLastOrderID = FirstOrderID
    /\ Accounting = <<>>

\* Every balance of every agent lies in the explored box.
InBox(ag) ==
    \A g \in DOMAIN ag :
        /\ ag[g].Money \in -MaxBalance..MaxBalance
        /\ ag[g].ReserveMoney \in -MaxBalance..MaxBalance
        /\ ag[g].ReserveOrders \in -MaxBalance..MaxBalance
        /\ ag[g].ReserveWages \in -MaxBalance..MaxBalance
        /\ ag[g].ReserveTax \in -MaxBalance..MaxBalance
        /\ ag[g].Inventory.Amount \in -MaxBalance..MaxBalance
        /\ ag[g].Inventory.Cost \in -MaxBalance..MaxBalance
        /\ ag[g].Inventory.Reserved \in -MaxBalance..MaxBalance

\* The object the calls are made on: the one agent besides the government,
\* or the government itself when there is no other.
Self == IF FirmID \in DOMAIN agents THEN FirmID
        ELSE IF JobGuaranteeID \in DOMAIN agents THEN JobGuaranteeID
        ELSE CentralGovernmentID

\* A CentralGovernment and at most one other agent, as constructed.
LedgerInit ==
    /\ \/ \E b \in 0..MaxAmount :
            agents = (CentralGovernmentID :> NewAgent("CentralGovernment", 0))
                     @@ (FirmID :> NewAgent("Agent", b))
       \/ agents = (CentralGovernmentID :> NewAgent("CentralGovernment", 0))
                   @@ (JobGuaranteeID :> NewAgent("JobGuarantee", 0))
       \/ agents = (CentralGovernmentID :> NewAgent("CentralGovernment", 0))
    /\ BookInit
    /\ NamedInit
    /\ SchedInit

LedgerStep(r) ==
    /\ InBox(r.ag)
    /\ agents' = r.ag
    /\ UNCHANGED bookVars
    /\ UNCHANGED namedVars
    /\ UNCHANGED schedVars
    /\ UNCHANGED requestVars

LReceiveMoney ==
    \E amount \in -MaxAmount..MaxAmount :
        LedgerStep(receive_money(agents, Self, amount))

LSpendMoney ==
    \E amount \in -MaxAmount..MaxAmount, from_reserve \in ReserveTypes :
        LedgerStep(spend_money(agents, Self, amount, from_reserve))

LChangeReserves ==
    \E change \in -MaxAmount..MaxAmount, reserve_type \in ReserveTypes :
        LedgerStep(change_reserves(agents, Self, change, reserve_type))

LDoAccounting ==
    \E order_type \in {"BUY", "SELL"}, operation \in {"add", "fill", "remove"},
       amount \in 0..MaxAmount, price \in 1..MaxAmount :
        LedgerStep(Agent_do_accounting(agents, Self, order_type, operation,
                                       amount, price))

LedgerNext == LReceiveMoney \/ LSpendMoney \/ LChangeReserves \/ LDoAccounting

SpecLedger == LedgerInit /\ [][LedgerNext]_vars

\* ------------------------------------------------- properties of the ledger
\* An ordinary agent: not the central government nor one of its arms.
Ordinary(a) == a.Class \notin {"CentralGovernment", "JobGuarantee"}

\* C3: whenever spend_money(amount, bucket) with amount >= 0 succeeds for an
\* ordinary agent, its Money is lower by exactly amount afterwards, whichever
\* the bucket (NONE, ORDERS, WAGES, TAX).  Stated of every call that can be
\* made in the current state.
C3_SpendDecreasesMoneyByAmount ==
    \A g \in DOMAIN agents :
        Ordinary(agents[g]) =>
            \A amount \in 0..MaxAmount, bucket \in ReserveTypes :
                LET r == spend_money(agents, g, amount, bucket)
                IN  r.raised = "none" =>
                        r.ag[g].Money = agents[g].Money - amount

\* C4: for every agent, after any sequence of receive_money, spend_money and
\* change_reserves calls, ReserveMoney = ReserveOrders + ReserveWages +
\* ReserveTax and none of the four counters is negative.
C4_ReserveMoneyIsSumOfBuckets ==
    \A g \in DOMAIN agents :
        LET a == agents[g]
        IN  /\ a.ReserveMoney = a.ReserveOrders + a.ReserveWages + a.ReserveTax
            /\ a.ReserveMoney >= 0
            /\ a.ReserveOrders >= 0
            /\ a.ReserveWages >= 0
            /\ a.ReserveTax >= 0

\* C5: an ordinary agent, which starts with ReserveMoney <= Money, has
\* ReserveMoney <= Money after any sequence of receive_money, spend_money,
\* change_reserves and market accounting calls, whether they succeed or raise.
C5_ReserveWithinMoney ==
    \A g \in DOMAIN agents :
        Ordinary(agents[g]) => agents[g].ReserveMoney <= agents[g].Money

\* C5 at its edge: an ordinary agent has reserved all the money it has.
C5_Witness ==
    \E g \in DOMAIN agents :
        /\ Ordinary(agents[g])
        /\ agents[g].ReserveOrders > 0
        /\ agents[g].ReserveMoney = agents[g].Money

\* ===================================================================
\* Orders and the order book (orders.py)
\* ===================================================================
Min(a, b) == IF a < b THEN a ELSE b

\* The prices and amounts orders are created with.  They are integers, which
\* the int() of BaseOrder.__init__ leaves as they are.  Two prices give
\* crossing and non-crossing orders, ties, and trades away from the incoming
\* limit.  Amount 0 is the one BaseOrder.__init__ rejects; 1 and 2 give full
\* and partial fills both ways.
PriceInputs == {1, 2}
AmountInputs == {0, 1, 2}

\* A constructor that lets an amount of zero through.
BadAmount_negative(amount) == amount < 0

\* BaseOrder.__init__ raises on this.
BadAmount(amount) == amount <= 0

\* BaseOrder.__init__, for an amount it accepts: the fields of the new order.
\* class is "BUY" (BuyOrder) or "SELL" (SellOrder).
BaseOrder(class, price, amount, firm_gid, keep) ==
    [Class |-> class,
     Price |-> price,
     Amount |-> amount,
     OrderID |-> GLastOrderID,
     FirmGID |-> firm_gid,
     KeepInQueue |-> keep]

\* A comparison that also holds between equal prices.
Lt_or_equal(self, other) ==
    IF self.Class = "BUY"
    THEN self.Price >= other.Price
    ELSE self.Price <= other.Price

\* BuyOrder.__lt__ / SellOrder.__lt__, dispatched on the left operand.
Lt(self, other) ==
    IF self.Class = "BUY"
    THEN self.Price > other.Price
    ELSE self.Price < other.Price

\* bisect.bisect_right(a, x, lo, hi): lo and hi count from 0 as in Python.
RECURSIVE bisect_right(_, _, _, _)
bisect_right(a, x, lo, hi) ==
    IF lo < hi
    THEN LET mid == (lo + hi) \div 2 IN
         IF Lt(x, a[mid + 1])
         THEN bisect_right(a, x, lo, mid)
         ELSE bisect_right(a, x, mid + 1, hi)
    ELSE lo

\* list.insert(i, x), i counted from 0.
ListInsert(a, i, x) ==
    SubSeq(a, 1, i) \o <<x>> \o SubSeq(a, i + 1, Len(a))

\* OrderQueue.insert_order: bisect.insort_right.
insert_order(Orders, order) ==
    ListInsert(Orders, bisect_right(Orders, order, 0, Len(Orders)), order)

\* OrderQueue.check_empty.
check_empty(Orders) ==
    IF Len(Orders) > 0 /\ Orders[1].Amount = 0
    THEN Tail(Orders)
    ELSE Orders

\* The position (from 1) of the first order with this id, 0 if there is none:
\* the search loop of OrderQueue.remove_order.
RECURSIVE FindOrder(_, _, _)
FindOrder(Orders, order_id, i) ==
    IF i > Len(Orders) THEN 0
    ELSE IF Orders[i].OrderID = order_id THEN i
    ELSE FindOrder(Orders, order_id, i + 1)

\* A removal that returns the order it found and leaves it in the queue.
Queue_remove_order_keep(Orders, order_id) ==
    LET i == FindOrder(Orders, order_id, 1) IN
    IF i # 0
    THEN [Orders |-> Orders, found |-> Some(Orders[i])]
    ELSE [Orders |-> Orders, found |-> None]

\* OrderQueue.remove_order: the queue afterwards and what is returned.
Queue_remove_order(Orders, order_id) ==
    LET i == FindOrder(Orders, order_id, 1) IN
    IF i # 0
    THEN [Orders |-> SubSeq(Orders, 1, i - 1) \o SubSeq(Orders, i + 1, Len(Orders)),
          found |-> Some(Orders[i])]
    ELSE [Orders |-> Orders, found |-> None]

\* MarketBase.get_time.
get_time == 0

\* The market and everything an order operation may change.  Class says
\* which do_accounting runs: "MarketBase", "MockMarket" (test_orders.py) or
\* "Market"; ag are the agents, raised the exception that ended the operation.
Market(class) ==
    [Class |-> class,
     BuyList |-> BuyList,
     SellList |-> SellList,
     LastPrice |-> LastPrice,
     LastTime |-> LastTime,
     Accounting |-> <<>>,
     ag |-> agents,
     raised |-> "none"]

\* The outcome r of a call on the agents, taken into the market operation.
OnAgents(m, r) == [m EXCEPT !.ag = r.ag, !.raised = r.raised]

\* The tuple MockMarket.do_accounting appends to Accounting.
Call(firm_gid, order_type, operation, amount, price) ==
    [FirmGID |-> firm_gid, Type |-> order_type, Operation |-> operation,
     Amount |-> amount, Price |-> price]

\* self.do_accounting(...): MarketBase.do_accounting does nothing,
\* MockMarket.do_accounting records the call, Market.do_accounting looks the
\* agent up (Entity.get_entity raises if there is none) and passes the call on.
do_accounting(m, firm_gid, order_type, operation, amount, price) ==
    IF m.Class = "MarketBase"
    THEN m
    ELSE IF m.Class = "MockMarket"
    THEN [m EXCEPT !.Accounting =
            Append(@, Call(firm_gid, order_type, operation, amount, price))]
    ELSE IF firm_gid \notin DOMAIN m.ag
    THEN [m EXCEPT !.raised = "EntityDoesNotExist"]
    ELSE OnAgents(m, Agent_do_accounting(m.ag, firm_gid, order_type,
                                         operation, amount, price))

\* A trade at the incoming order's limit.
TradePrice_incoming(head, order) == order.Price

\* The price a trade is done at: the head of the opposite queue.
TradePrice(head, order) == head.Price

\* A trade for all that the incoming order still asks for.
TradeAmount_incoming(head, order) == order.Amount

\* The amount of one trade.
TradeAmount(head, order) == Min(head.Amount, order.Amount)

\* An order that rests whatever its KeepInQueue says.
NoTransaction_insert(m, order) ==
    IF order.Class = "BUY"
    THEN [m EXCEPT !.BuyList = insert_order(@, order)]
    ELSE [m EXCEPT !.SellList = insert_order(@, order)]

\* The branch of add_buy / add_sell that ends the loop without a trade: the
\* order goes into the queue of its side, or, with KeepInQueue False, what is
\* left of it is notified as removed.
NoTransaction(m, order) ==
    IF order.KeepInQueue
    THEN IF order.Class = "BUY"
         THEN [m EXCEPT !.BuyList = insert_order(@, order)]
         ELSE [m EXCEPT !.SellList = insert_order(@, order)]
    ELSE do_accounting(m, order.FirmGID, order.Class, "remove",
                       order.Amount, order.Price)

\* The `while True` loop of MarketBase.add_buy.
RECURSIVE add_buy_loop(_, _)
add_buy_loop(m, buy_order) ==
    IF Len(m.SellList) = 0 \/ buy_order.Price < m.SellList[1].Price
    THEN NoTransaction(m, buy_order)
    ELSE LET head == m.SellList[1]
             ask == TradePrice(head, buy_order)
             m1 == [m EXCEPT !.LastPrice = Some(ask), !.LastTime = Some(get_time)]
             amount == TradeAmount(head, buy_order)
             m2 == do_accounting(m1, buy_order.FirmGID, "BUY", "fill", amount, ask)
             m3 == IF m2.raised # "none" THEN m2
                   ELSE do_accounting(m2, head.FirmGID, "SELL", "fill", amount, ask)
             order2 == [buy_order EXCEPT !.Amount = @ - amount]
             m4 == [m3 EXCEPT !.SellList[1].Amount = @ - amount]
             m5 == [m4 EXCEPT !.SellList = check_empty(@)]
         IN  IF m3.raised # "none" THEN m3
             ELSE IF order2.Amount = 0 THEN m5
             ELSE add_buy_loop(m5, order2)

\* MarketBase.add_buy with the matching begun before anything is reserved.
add_buy_unreserved(m, buy_order) == add_buy_loop(m, buy_order)

\* MarketBase.add_buy resting the order without looking at the asks.
add_buy_unmatched(m, buy_order) ==
    LET m1 == do_accounting(m, buy_order.FirmGID, "BUY", "add",
                            buy_order.Amount, buy_order.Price)
    IN  IF m1.raised # "none" THEN m1 ELSE NoTransaction(m1, buy_order)

\* MarketBase.add_buy.
add_buy(m, buy_order) ==
    LET m1 == do_accounting(m, buy_order.FirmGID, "BUY", "add",
                            buy_order.Amount, buy_order.Price)
    IN  IF m1.raised # "none" THEN m1 ELSE add_buy_loop(m1, buy_order)

\* The `while True` loop of MarketBase.add_sell.
RECURSIVE add_sell_loop(_, _)
add_sell_loop(m, sell_order) ==
    IF Len(m.BuyList) = 0 \/ sell_order.Price > m.BuyList[1].Price
    THEN NoTransaction(m, sell_order)
    ELSE LET head == m.BuyList[1]
             bid == TradePrice(head, sell_order)
             m1 == [m EXCEPT !.LastPrice = Some(bid), !.LastTime = Some(get_time)]
             amount == TradeAmount(head, sell_order)
             m2 == do_accounting(m1, sell_order.FirmGID, "SELL", "fill", amount, bid)
             m3 == IF m2.raised # "none" THEN m2
                   ELSE do_accounting(m2, head.FirmGID, "BUY", "fill", amount, bid)
             order2 == [sell_order EXCEPT !.Amount = @ - amount]
             m4 == [m3 EXCEPT !.BuyList[1].Amount = @ - amount]
             m5 == [m4 EXCEPT !.BuyList = check_empty(@)]
         IN  IF m3.raised # "none" THEN m3
             ELSE IF order2.Amount = 0 THEN m5
             ELSE add_sell_loop(m5, order2)

\* MarketBase.add_sell.
add_sell(m, sell_order) ==
    LET m1 == do_accounting(m, sell_order.FirmGID, "SELL", "add",
                            sell_order.Amount, sell_order.Price)
    IN  IF m1.raised # "none" THEN m1 ELSE add_sell_loop(m1, sell_order)

\* Whether an order with this id rests in a queue.
Resting(Orders, order_id) == FindOrder(Orders, order_id, 1) # 0

\* The ids BaseOrder.__init__ has handed out.
Created(order_id) == order_id <= FirstOrderID /\ order_id > GLastOrderID

\* GOrderDict is a WeakValueDictionary: BaseOrder.get_order finds an order for
\* as long as the object lives, which a resting order does (its queue refers
\* to it) and any other order does only while its creator still holds it.
\* held is None, or the class of the order object the creator still holds.
InOrderDict(m, order_id, held) ==
    \/ Resting(m.BuyList, order_id)
    \/ Resting(m.SellList, order_id)
    \/ (Created(order_id) /\ held # None)

\* isinstance(order, BuyOrder) for the order BaseOrder.get_order returned.
IsBuyOrder(m, order_id, held) ==
    IF Resting(m.BuyList, order_id) THEN TRUE
    ELSE IF Resting(m.SellList, order_id) THEN FALSE
    ELSE held = Some("BUY")

\* The accounting of a removal: only for an order that was found.
NotifyRemoved(m, found, order_type) ==
    IF found # None
    THEN do_accounting(m, found[1].FirmGID, order_type, "remove",
                       found[1].Amount, found[1].Price)
    ELSE m

\* MarketBase.remove_order.
remove_order(m, order_id, held) ==
    IF ~InOrderDict(m, order_id, held)
    THEN m
    ELSE IF IsBuyOrder(m, order_id, held)
    THEN LET r == Queue_remove_order(m.BuyList, order_id) IN
         NotifyRemoved([m EXCEPT !.BuyList = r.Orders], r.found, "BUY")
    ELSE LET r == Queue_remove_order(m.SellList, order_id) IN
         NotifyRemoved([m EXCEPT !.SellList = r.Orders], r.found, "SELL")

\* ===================================================================
\* The order book on its own: the MockMarket of test_orders.py, a MarketBase
\* whose do_accounting records each call.
\* ===================================================================
\* The firms that submit orders.
Firms == {FirmID, FirmBID}

\* Ids handed to remove_order: every id that may have been created, one that
\* never is, and an entity's id.
OrderIDs == (-(MaxOrders + 1))..(-1) \cup {FirmID}

\* Whether the caller of remove_order still holds the order object, and if so
\* of which class it is.
HeldInputs == {None, Some("BUY"), Some("SELL")}

\* What an operation that ended in state m leaves behind.
MarketStep(m) ==
    /\ BuyList' = m.BuyList
    /\ SellList' = m.SellList
    /\ LastPrice' = m.LastPrice
    /\ LastTime' = m.LastTime
    /\ Accounting' = m.Accounting
    /\ agents' = m.ag
    /\ UNCHANGED namedVars
    /\ UNCHANGED schedVars
    /\ UNCHANGED requestVars

\* BaseOrder.__init__ moves GLastOrderID on.
OrderCreated ==
    /\ GLastOrderID >= -MaxOrders
    /\ GLastOrderID' = GLastOrderID - 1

BookSpecInit ==
    /\ agents = <<>>
    /\ BookInit
    /\ NamedInit
    /\ SchedInit

\* BuyOrder(price, amount, firm_gid), KeepInQueue set, then add_buy.
BAddBuy ==
    \E amount \in AmountInputs :
        IF BadAmount(amount)
        THEN UNCHANGED vars
        ELSE \E price \in PriceInputs, firm_gid \in Firms, keep \in BOOLEAN :
                /\ OrderCreated
                /\ MarketStep(add_buy(Market("MockMarket"),
                               BaseOrder("BUY", price, amount, firm_gid, keep)))

\* SellOrder(price, amount, firm_gid), KeepInQueue set, then add_sell.
BAddSell ==
    \E amount \in AmountInputs :
        IF BadAmount(amount)
        THEN UNCHANGED vars
        ELSE \E price \in PriceInputs, firm_gid \in Firms, keep \in BOOLEAN :
                /\ OrderCreated
                /\ MarketStep(add_sell(Market("MockMarket"),
                               BaseOrder("SELL", price, amount, firm_gid, keep)))

\* remove_order(order_id).
BRemoveOrder ==
    \E order_id \in OrderIDs, held \in HeldInputs :
        /\ MarketStep(remove_order(Market("MockMarket"), order_id, held))
        /\ UNCHANGED GLastOrderID

BookNext == BAddBuy \/ BAddSell \/ BRemoveOrder

SpecBook == BookSpecInit /\ [][BookNext]_vars

\* ------------------------------------------------ properties of the book
\* The calls recorded by the operation that led to the current state.
FillsOf(log) == SelectSeq(log, LAMBDA c : c.Operation = "fill")
IsAdd(log) == Len(log) > 0 /\ log[1].Operation = "add"
Other(type) == IF type = "BUY" THEN "SELL" ELSE "BUY"

\* The amount of the first j - 1 trades (fills come in pairs, one per side).
RECURSIVE FilledBefore(_, _)
FilledBefore(fills, j) ==
    IF j <= 1 THEN 0
    ELSE fills[2 * (j - 1)].Amount + FilledBefore(fills, j - 1)

\* The order with this id in a queue (there is at most one).
OrderAt(Orders, order_id) == Orders[FindOrder(Orders, order_id, 1)]

\* C6: every fill produced by add_buy or add_sell is priced at the resting
\* order's price.  The j-th trade of an operation is against the j-th order
\* of the opposite queue as it was before the operation; both notifications
\* of that trade carry that order's price, whatever the incoming limit.
C6_FillsAtRestingPrice ==
    [][IsAdd(Accounting') =>
        LET add == Accounting'[1]
            fills == FillsOf(Accounting')
            opposite == IF add.Type = "BUY" THEN SellList ELSE BuyList
        IN  /\ Len(fills) <= 2 * Len(opposite)
            /\ \A i \in 1..Len(fills) :
                    fills[i].Price = opposite[(i + 1) \div 2].Price
      ]_vars

\* C6 where it matters: a trade was done at a price other than the incoming
\* order's limit.
C6_Witness ==
    /\ IsAdd(Accounting)
    /\ \E i \in 1..Len(Accounting) :
            /\ Accounting[i].Operation = "fill"
            /\ Accounting[i].Price # Accounting[1].Price

\* C7: each trade step of add_buy / add_sell notifies one fill to the incoming
\* side and one to the resting side, both for min(incoming remaining, head
\* remaining), and both orders' remaining amounts go down by exactly that: the
\* resting order leaves the queue if nothing remains and stays at the head
\* with the difference otherwise, and the incoming order, if it comes to
\* rest, rests with what the trades left of it.
C7_TradeStep ==
    [][IsAdd(Accounting') =>
        LET add == Accounting'[1]
            fills == FillsOf(Accounting')
            n == Len(fills) \div 2
            opposite == IF add.Type = "BUY" THEN SellList ELSE BuyList
            opposite2 == IF add.Type = "BUY" THEN SellList' ELSE BuyList'
            own2 == IF add.Type = "BUY" THEN BuyList' ELSE SellList'
        IN  /\ Len(fills) = 2 * n
            /\ n <= Len(opposite)
            /\ \A j \in 1..n :
                    LET head == opposite[j]
                        amount == Min(add.Amount - FilledBefore(fills, j),
                                      head.Amount)
                    IN  /\ fills[2 * j - 1].Type = add.Type
                        /\ fills[2 * j - 1].FirmGID = add.FirmGID
                        /\ fills[2 * j - 1].Amount = amount
                        /\ fills[2 * j].Type = Other(add.Type)
                        /\ fills[2 * j].FirmGID = head.FirmGID
                        /\ fills[2 * j].Amount = amount
                        /\ amount > 0
                        /\ IF amount = head.Amount
                           THEN ~Resting(opposite2, head.OrderID)
                           ELSE /\ Len(opposite2) > 0
                                /\ opposite2[1] = [head EXCEPT !.Amount = @ - amount]
            /\ Resting(own2, GLastOrderID) =>
                    OrderAt(own2, GLastOrderID).Amount
                        = add.Amount - FilledBefore(fills, n + 1)
      ]_vars

\* C7 with more than one trade step: the incoming order swept a resting
\* order and traded with the next.
C7_Witness ==
    /\ IsAdd(Accounting)
    /\ Len(FillsOf(Accounting)) >= 4

\* The order earlier in the queue has priority over the later one: a better
\* price or, at the same price, an earlier creation (ids count downwards).
Before(type, first, second) ==
    \/ IF type = "BUY" THEN first.Price > second.Price
                       ELSE first.Price < second.Price
    \/ first.Price = second.Price /\ first.OrderID > second.OrderID

\* C8: BuyList is ordered by non-increasing price, SellList by non-decreasing
\* price, and among resting orders of equal price the one inserted earlier is
\* nearer the head.
C8_PriceTimePriority ==
    /\ \A i \in 1..(Len(BuyList) - 1) : Before("BUY", BuyList[i], BuyList[i + 1])
    /\ \A i \in 1..(Len(SellList) - 1) : Before("SELL", SellList[i], SellList[i + 1])

\* C8 with both kinds of neighbours: a queue holds two orders of one price and
\* an order of another price.
C8_Witness ==
    \E Orders \in {BuyList, SellList} :
        /\ \E i \in 1..(Len(Orders) - 1) : Orders[i].Price = Orders[i + 1].Price
        /\ \E i \in 1..(Len(Orders) - 1) : Orders[i].Price # Orders[i + 1].Price

\* C9: every resting order has Amount > 0; after an add, an incoming order
\* that was filled completely does not rest, and one that was filled in part
\* and is kept rests with exactly what was not filled.
C9_RestingAmountPositive ==
    /\ \A i \in 1..Len(BuyList) : BuyList[i].Amount > 0
    /\ \A i \in 1..Len(SellList) : SellList[i].Amount > 0
    /\ IsAdd(Accounting) =>
        LET add == Accounting[1]
            fills == FillsOf(Accounting)
            remainder == add.Amount - FilledBefore(fills, Len(fills) \div 2 + 1)
            own == IF add.Type = "BUY" THEN BuyList ELSE SellList
            order_id == GLastOrderID + 1
            kept == Accounting[Len(Accounting)].Operation # "remove"
        IN  /\ remainder >= 0
            /\ remainder = 0 => ~Resting(own, order_id)
            /\ (remainder > 0 /\ kept) =>
                    /\ Resting(own, order_id)
                    /\ OrderAt(own, order_id).Amount = remainder
                    /\ OrderAt(own, order_id).Price = add.Price

\* C9 in the partial case: an incoming order was filled in part, emptied the
\* queue it traded against, and rests with the remainder.
C9_Witness ==
    /\ IsAdd(Accounting)
    /\ Len(FillsOf(Accounting)) > 0
    /\ LET own == IF Accounting[1].Type = "BUY" THEN BuyList ELSE SellList
       IN  /\ Resting(own, GLastOrderID + 1)
           /\ OrderAt(own, GLastOrderID + 1).Amount < Accounting[1].Amount

\* remove_order(order_id), made in the current state, as a market record.
Removal(order_id, held) == remove_order(Market("MockMarket"), order_id, held)

\* The queue without the order at position i.
Without(Orders, i) == SubSeq(Orders, 1, i - 1) \o SubSeq(Orders, i + 1, Len(Orders))

\* C10: remove_order(id) of an id that does not rest in the market changes
\* neither queue and notifies nothing; of an id that rests, it takes exactly
\* that order out and sends exactly one 'remove' notification, for the
\* order's remaining Amount at its Price; doing it again changes nothing and
\* notifies nothing.  Stated of every removal that can be asked for in the
\* current state.
C10_RemoveOrder ==
    \A order_id \in OrderIDs, held \in HeldInputs :
        LET b == FindOrder(BuyList, order_id, 1)
            s == FindOrder(SellList, order_id, 1)
            before == Market("MockMarket")
            after ==
                IF b # 0
                THEN [before EXCEPT
                        !.BuyList = Without(BuyList, b),
                        !.Accounting = <<Call(BuyList[b].FirmGID, "BUY", "remove",
                                              BuyList[b].Amount, BuyList[b].Price)>>]
                ELSE IF s # 0
                THEN [before EXCEPT
                        !.SellList = Without(SellList, s),
                        !.Accounting = <<Call(SellList[s].FirmGID, "SELL", "remove",
                                              SellList[s].Amount, SellList[s].Price)>>]
                ELSE before
            cleared == [after EXCEPT !.Accounting = <<>>]
        IN  /\ Removal(order_id, held) = after
            /\ remove_order(cleared, order_id, held) = cleared

\* C10 after a removal: a resting order was taken out of the market, in which
\* at least two others still rest.
C10_Witness ==
    /\ Len(Accounting) = 1
    /\ Accounting[1].Operation = "remove"
    /\ Len(BuyList) + Len(SellList) >= 2

\* The amounts of a sequence of calls, added up.
RECURSIVE SumAmounts(_)
SumAmounts(calls) ==
    IF calls = <<>> THEN 0
    ELSE Head(calls).Amount + SumAmounts(Tail(calls))

\* What the calls recorded for an order submitted with KeepInQueue False must
\* be: the 'add' first; the order's own fills; and a single 'remove', the
\* last call, for what the fills left over, at the order's own price, if
\* they left anything over.
NotKeptOutcome(order, m) ==
    LET log == m.Accounting
        own == SelectSeq(log, LAMBDA c : c.Operation = "fill" /\ c.Type = order.Class)
        removes == SelectSeq(log, LAMBDA c : c.Operation = "remove")
        r == order.Amount - SumAmounts(own)
    IN  /\ ~Resting(m.BuyList, order.OrderID)
        /\ ~Resting(m.SellList, order.OrderID)
        /\ log[1] = Call(order.FirmGID, order.Class, "add", order.Amount, order.Price)
        /\ r >= 0
        /\ IF r > 0
           THEN /\ removes = <<Call(order.FirmGID, order.Class, "remove", r, order.Price)>>
                /\ log[Len(log)] = removes[1]
           ELSE removes = <<>>
        /\ order.Amount = SumAmounts(own) + SumAmounts(removes)

\* C11: an order submitted with KeepInQueue False is in neither queue when
\* add_buy / add_sell returns; if a remainder r > 0 is left unfilled there is
\* exactly one 'remove' notification, for r at the order's own price, so the
\* amount of the 'add' notification is the sum of the order's 'fill' amounts
\* plus the 'remove' amount.  Stated for every book the program reaches and
\* every such order submitted to it.
C11_NotKeptNeverRests ==
    \A class \in {"BUY", "SELL"}, price \in PriceInputs,
       amount \in {a \in AmountInputs : ~BadAmount(a)}, firm_gid \in Firms :
        LET order == BaseOrder(class, price, amount, firm_gid, FALSE) IN
        \A m \in {IF class = "BUY"
                  THEN add_buy(Market("MockMarket"), order)
                  ELSE add_sell(Market("MockMarket"), order)} :
            NotKeptOutcome(order, m)

\* C11 where it matters: an order was partly filled, and what was left of it
\* was notified as removed and rests nowhere.
C11_Witness ==
    /\ Len(Accounting) = 4
    /\ Accounting[1].Operation = "add"
    /\ Accounting[2].Operation = "fill"
    /\ Accounting[4].Operation = "remove"
    /\ Accounting[4].Type = Accounting[1].Type
    /\ Accounting[4].Amount = Accounting[1].Amount - Accounting[2].Amount
    /\ ~Resting(BuyList, GLastOrderID + 1)
    /\ ~Resting(SellList, GLastOrderID + 1)

\* BaseSimulation.add_entity without the entry in the government's books.
add_entity_no_offset(ag, gid, entity) ==
    (gid :> entity) @@ ag

\* ===================================================================
\* The economy: a BaseSimulation with its CentralGovernment, the agents it
\* admits, wages, taxes, production, and a Market whose do_accounting goes
\* to the agents.
\* ===================================================================
\* BaseSimulation.add_entity, for an entity with a Money field: it gets the
\* next GID and the government's Money goes down by its balance.
add_entity(ag, gid, entity) ==
    (gid :> entity) @@ [ag EXCEPT ![CentralGovernmentID].Money = @ - entity.Money]

\* BaseSimulation.pay_taxes.
pay_taxes(ag, taxpayer_gid, amount) ==
    IF taxpayer_gid \notin DOMAIN ag
    THEN Ok(ag)
    ELSE LET r == spend_money(ag, taxpayer_gid, amount, "TAX") IN
         IF r.raised # "none"
         THEN r
         ELSE receive_money(r.ag, CentralGovernmentID, amount)

\* math.floor(0.1 * amount), which for the amounts used here is the integer
\* quotient.
Taxes(amount) == amount \div 10

\* HouseholdSector.receive_wages.  DailyEarnings, which only the consumption
\* function reads, is not carried.
receive_wages(ag, h, amount) ==
    LET r1 == receive_money(ag, h, amount)
        taxes == Taxes(amount)
        r2 == IF r1.raised # "none" THEN r1
              ELSE change_reserves(r1.ag, h, taxes, "TAX")
    IN  IF r2.raised # "none" THEN r2
        ELSE pay_taxes(r2.ag, h, taxes)

\* BaseSimulation.process_action, 'PayWages': self.Households has the one
\* household of the location, if it has been admitted.
PayWages(ag, agent, amount) ==
    IF HouseholdID \notin DOMAIN ag
    THEN Raise(ag, "KeyError")
    ELSE LET r == spend_money(ag, agent, amount, "NONE") IN
         IF r.raised # "none"
         THEN r
         ELSE receive_wages(r.ag, HouseholdID, amount)

\* BaseSimulation.action_production_labour.
action_production_labour(ag, agent, production, payment) ==
    OnInventory(ag, agent, add_inventory(ag[agent].Inventory, production, payment))

\* Starting balances of the admitted agents, wages, and what a day's
\* production is and costs.  A wage of 10 is the smallest that is taxed.
MaxMoney == 12
MaxInventory == 2
StartBalances == {0, 2}
WageInputs == {1, 10}
ProductionInputs == {1}
PaymentInputs == {1}

\* The agents admitted after the government, in the order of their GIDs.  A
\* JobGuarantee always starts with no money.
Admission(gid) ==
    IF gid = JobGuaranteeID THEN {NewAgent("JobGuarantee", 0)}
    ELSE IF gid = HouseholdID
    THEN {NewAgent("HouseholdSector", b) : b \in StartBalances}
    ELSE {NewAgent("Agent", b) : b \in StartBalances}

\* The part of the state space that is explored.
InEconomy(ag) ==
    \A g \in DOMAIN ag :
        /\ ag[g].Money \in -MaxMoney..MaxMoney
        /\ ag[g].Inventory.Amount <= MaxInventory

\* What a handler that left the agents as in r leaves behind: an exception
\* does not undo what was assigned before it.
EconomyStep(r) ==
    /\ InEconomy(r.ag)
    /\ agents' = r.ag
    /\ UNCHANGED bookVars
    /\ UNCHANGED namedVars
    /\ UNCHANGED schedVars
    /\ UNCHANGED requestVars

\* After BaseSimulation.__init__: the government alone, and an empty market.
Init ==
    /\ agents = (CentralGovernmentID :> NewAgent("CentralGovernment", 0))
    /\ BookInit
    /\ NamedInit
    /\ SchedInitWith({CentralGovernmentID})

AddEntity ==
    LET gid == CentralGovernmentID + Cardinality(DOMAIN agents) IN
    /\ gid <= FirmID
    /\ \E entity \in Admission(gid) :
            /\ InEconomy(add_entity(agents, gid, entity))
            /\ agents' = add_entity(agents, gid, entity)
            /\ Entities' = [Entities EXCEPT ![gid] = NewEntity]
            /\ UNCHANGED bookVars
            /\ UNCHANGED namedVars
            /\ UNCHANGED <<Time, TimeMode, IsPaused, EventList, ClientCommands,
                           ClientMessages, G_LAST_JITTER, JitterCalls, Queued,
                           LastFired, Done>>
            /\ UNCHANGED requestVars

Employers == {JobGuaranteeID, FirmID}

ActionPayWages ==
    \E agent \in Employers \cap DOMAIN agents, amount \in WageInputs :
        EconomyStep(PayWages(agents, agent, amount))

PayTaxes ==
    \E taxpayer_gid \in DOMAIN agents \cup {FirmBID}, amount \in {0, 1} :
        EconomyStep(pay_taxes(agents, taxpayer_gid, amount))

ActionProductionLabour ==
    \E production \in ProductionInputs, payment \in PaymentInputs :
        /\ FirmID \in DOMAIN agents
        /\ EconomyStep(action_production_labour(agents, FirmID, production, payment))

\* The household sector buys and the producer sells.
Buyers == {HouseholdID}
Sellers == {FirmID}

\* What an order operation on the Market leaves behind.
MarketOutcome(m) ==
    /\ InEconomy(m.ag)
    /\ MarketStep(m)

AddBuy ==
    \E amount \in AmountInputs :
        IF BadAmount(amount)
        THEN UNCHANGED vars
        ELSE \E price \in PriceInputs, firm_gid \in Buyers \cap DOMAIN agents :
                /\ OrderCreated
                /\ MarketOutcome(add_buy(Market("Market"),
                                  BaseOrder("BUY", price, amount, firm_gid, TRUE)))

AddSell ==
    \E amount \in AmountInputs :
        IF BadAmount(amount)
        THEN UNCHANGED vars
        ELSE \E price \in PriceInputs, firm_gid \in Sellers \cap DOMAIN agents :
                /\ OrderCreated
                /\ MarketOutcome(add_sell(Market("Market"),
                                  BaseOrder("SELL", price, amount, firm_gid, TRUE)))

RemoveOrder ==
    \E order_id \in OrderIDs, held \in HeldInputs :
        /\ MarketOutcome(remove_order(Market("Market"), order_id, held))
        /\ UNCHANGED GLastOrderID

Next ==
    \/ AddEntity
    \/ ActionPayWages
    \/ PayTaxes
    \/ ActionProductionLabour
    \/ AddBuy
    \/ AddSell
    \/ RemoveOrder

Spec == Init /\ [][Next]_vars

\* ---------------------------------------------- properties of the economy
RECURSIVE SumMoney(_, _)
SumMoney(ag, gids) ==
    IF gids = {} THEN 0
    ELSE LET g == CHOOSE x \in gids : TRUE
         IN  ag[g].Money + SumMoney(ag, gids \ {g})

\* C1: in every state reached by admitting agents through add_entity and
\* then paying wages, paying taxes and filling orders, the Money of all the
\* agents, the CentralGovernment included, sums to 0.
C1_MoneySumsToZero == SumMoney(agents, DOMAIN agents) = 0

\* The value (Price x Amount) and the amount of the orders of one firm that
\* rest in a queue, from position i on.
RECURSIVE RestingValue(_, _, _)
RestingValue(Orders, firm_gid, i) ==
    IF i > Len(Orders) THEN 0
    ELSE (IF Orders[i].FirmGID = firm_gid
          THEN Orders[i].Price * Orders[i].Amount ELSE 0)
         + RestingValue(Orders, firm_gid, i + 1)

RECURSIVE RestingAmount(_, _, _)
RestingAmount(Orders, firm_gid, i) ==
    IF i > Len(Orders) THEN 0
    ELSE (IF Orders[i].FirmGID = firm_gid THEN Orders[i].Amount ELSE 0)
         + RestingAmount(Orders, firm_gid, i + 1)

\* C2: after any sequence of add_buy, add_sell and remove_order on the
\* Market, each ordinary agent's ReserveOrders is the sum of Price x Amount
\* over its resting buy orders and its inventory's Reserved is the sum of
\* Amount over its resting sell orders; an agent with no resting order has
\* nothing reserved for orders.
C2_ReservesMatchBook ==
    \A g \in DOMAIN agents :
        Ordinary(agents[g]) =>
            /\ agents[g].ReserveOrders = RestingValue(BuyList, g, 1)
            /\ agents[g].Inventory.Reserved = RestingAmount(SellList, g, 1)

\* ===================================================================
\* Named orders: Market.add_named_buy / add_named_sell on the Markets of
\* the simulation, reached through the AddNamedBuy / AddNamedSell actions.
\* ===================================================================
\* The Market entity of a commodity and everything an operation on it may
\* change.
MarketOf(commodity_id) ==
    [Class |-> "Market",
     BuyList |-> Markets[commodity_id].BuyList,
     SellList |-> Markets[commodity_id].SellList,
     LastPrice |-> Markets[commodity_id].LastPrice,
     LastTime |-> Markets[commodity_id].LastTime,
     Accounting |-> <<>>,
     ag |-> agents,
     raised |-> "none"]

\* GOrderDict is shared by all markets: an order that rests in the queue of
\* another market is still found by BaseOrder.get_order.  The order objects
\* of named submissions are locals of the caller and are held by nothing
\* else once the call has returned.
HeldElsewhere(commodity_id, order_id) ==
    IF \E c \in CommodityIDs \ {commodity_id} : Resting(Markets[c].BuyList, order_id)
    THEN Some("BUY")
    ELSE IF \E c \in CommodityIDs \ {commodity_id} : Resting(Markets[c].SellList, order_id)
    THEN Some("SELL")
    ELSE None

\* The cancellation both wrappers start with: id_existing is what
\* agent.NamedOrders.get(name, None) gave.
RemoveExisting(m, commodity_id, id_existing) ==
    IF id_existing # None
    THEN remove_order(m, id_existing[1], HeldElsewhere(commodity_id, id_existing[1]))
    ELSE m

\* Market.add_named_buy: the market afterwards and the agent's NamedOrders.
add_named_buy(commodity_id, agent, name, order) ==
    LET key == NamedKey("buy_", name)
        m1 == RemoveExisting(MarketOf(commodity_id), commodity_id, NamedOrders[agent][key])
        m2 == IF m1.raised # "none" THEN m1 ELSE add_buy(m1, order)
    IN  [m |-> m2,
         named |-> IF m2.raised # "none" THEN NamedOrders[agent]
                   ELSE [NamedOrders[agent] EXCEPT ![key] = Some(order.OrderID)]]

\* Market.add_named_sell.
add_named_sell(commodity_id, agent, name, order) ==
    LET key == NamedKey("sel_", name)
        m1 == RemoveExisting(MarketOf(commodity_id), commodity_id, NamedOrders[agent][key])
        m2 == IF m1.raised # "none" THEN m1 ELSE add_sell(m1, order)
    IN  [m |-> m2,
         named |-> IF m2.raised # "none" THEN NamedOrders[agent]
                   ELSE [NamedOrders[agent] EXCEPT ![key] = Some(order.OrderID)]]

\* What a named submission that ended as r leaves behind.
NamedOutcome(commodity_id, agent, key, r) ==
    /\ InEconomy(r.m.ag)
    /\ agents' = r.m.ag
    /\ Markets' = [Markets EXCEPT ![commodity_id] =
                        [BuyList |-> r.m.BuyList, SellList |-> r.m.SellList,
                         LastPrice |-> r.m.LastPrice, LastTime |-> r.m.LastTime]]
    /\ NamedOrders' = [NamedOrders EXCEPT ![agent] = r.named]
    /\ Submitted' = Append(Submitted, [Agent |-> agent, Key |-> key,
                                        Commodity |-> commodity_id])
    /\ UNCHANGED <<BuyList, SellList, LastPrice, LastTime, Accounting>>
    /\ UNCHANGED schedVars
    /\ UNCHANGED requestVars

\* The commodity the producer makes: the one the agents' Inventory is of.
\* Orders for the other commodities come from buyers only, so that no trade
\* moves goods the model does not keep.
ProducedCommodity == 1

\* process_action, 'AddNamedBuy': BuyOrder(price, amount, agent.GID), then
\* market.add_named_buy(agent, name, order) on the market of the commodity.
AddNamedBuy ==
    \E amount \in AmountInputs :
        IF BadAmount(amount)
        THEN UNCHANGED vars
        ELSE \E commodity_id \in CommodityIDs, name \in OrderNames,
                price \in PriceInputs, agent \in Buyers \cap DOMAIN agents :
                /\ OrderCreated
                /\ NamedOutcome(commodity_id, agent, NamedKey("buy_", name),
                        add_named_buy(commodity_id, agent, name,
                            BaseOrder("BUY", price, amount, agent, TRUE)))

\* process_action, 'AddNamedSell'.
AddNamedSell ==
    \E amount \in AmountInputs :
        IF BadAmount(amount)
        THEN UNCHANGED vars
        ELSE \E commodity_id \in {ProducedCommodity}, name \in OrderNames,
                price \in PriceInputs, agent \in Sellers \cap DOMAIN agents :
                /\ OrderCreated
                /\ NamedOutcome(commodity_id, agent, NamedKey("sel_", name),
                        add_named_sell(commodity_id, agent, name,
                            BaseOrder("SELL", price, amount, agent, TRUE)))

NamedNext ==
    \/ AddEntity
    \/ ActionPayWages
    \/ ActionProductionLabour
    \/ AddNamedBuy
    \/ AddNamedSell

SpecNamed == Init /\ [][NamedNext]_vars

\* ------------------------------------------ properties of named orders
\* Who submitted a resting order, and under which key.
SubmittedAs(order) ==
    <<Submitted[-order.OrderID].Agent, Submitted[-order.OrderID].Key>>

\* C12: after any sequence of add_named_buy / add_named_sell calls an agent
\* has at most one order resting per name and side.  Stated book by book: no
\* queue of any market holds two orders that the same agent submitted under
\* the same key.
C12_OneRestingPerName ==
    \A c \in CommodityIDs :
        \A Orders \in {Markets[c].BuyList, Markets[c].SellList} :
            \A i, j \in 1..Len(Orders) :
                i # j => SubmittedAs(Orders[i]) # SubmittedAs(Orders[j])

\* ===================================================================
\* The scheduler: Simulation, Event, the jitter sequence.
\* Time is counted in ticks of a twentieth of a day.
\* ===================================================================
\* The element of a set of one element.  A set constructor takes the value
\* of a call once, whatever the number of places that use it.
The(S) == CHOOSE x \in S : TRUE

\* Ticks in a day (Time 1.0 is one day).
DayTicks == 20

\* The entries of G_JITTER are twentieths.
JitterUnits == 20

\* utils.G_JITTER, indexed from 0 as the list is: i/20 and 0.5 + i/20 in
\* turn for i = 0..9, then 1.
G_JITTER ==
    [k \in 0..20 |-> IF k = 20 THEN JitterUnits
                     ELSE IF k % 2 = 0 THEN k \div 2
                     ELSE JitterUnits \div 2 + k \div 2]

\* A reset that leaves the index where it is.
reset_jitter_keep(last) == last

\* utils.reset_jitter: the value G_LAST_JITTER gets.
reset_jitter(last) == 0

\* utils.jitter_time: the new G_LAST_JITTER and the value returned.  The
\* ranges passed are whole ticks whose width is 0 or a multiple of
\* JitterUnits, so the product is a whole number of ticks.
jitter_time(last, time_range) ==
    LET n == IF last + 1 = Cardinality(DOMAIN G_JITTER) THEN 0 ELSE last + 1 IN
    [last |-> n,
     value |-> time_range[1]
               + (G_JITTER[n] * (time_range[2] - time_range[1])) \div JitterUnits]

\* Event.__init__.  Id tells the event objects apart and Stamp is the number
\* of the queue_event call that put the event where it is.
Event(gid, callback, calltime, repeat) ==
    [GID |-> gid, Callback |-> callback, CallTime |-> calltime,
     Repeat |-> repeat, DataRequests |-> <<>>, Id |-> 0, Stamp |-> 0]

\* Event.__lt__.
Event_lt(self, other) == self.CallTime < other.CallTime

\* An insertion point before the events of the same CallTime.
RECURSIVE Event_bisect_left(_, _, _, _)
Event_bisect_left(a, x, lo, hi) ==
    IF lo < hi
    THEN LET mid == (lo + hi) \div 2 IN
         IF Event_lt(a[mid + 1], x)
         THEN Event_bisect_left(a, x, mid + 1, hi)
         ELSE Event_bisect_left(a, x, lo, mid)
    ELSE lo

\* An insertion that puts an event before those of the same CallTime.
insort_left(a, x) == ListInsert(a, Event_bisect_left(a, x, 0, Len(a)), x)

\* bisect.bisect_right on a list of events.
RECURSIVE Event_bisect_right(_, _, _, _)
Event_bisect_right(a, x, lo, hi) ==
    IF lo < hi
    THEN LET mid == (lo + hi) \div 2 IN
         IF Event_lt(x, a[mid + 1])
         THEN Event_bisect_right(a, x, lo, mid)
         ELSE Event_bisect_right(a, x, mid + 1, hi)
    ELSE lo

\* bisect.insort_right.
insort_right(a, x) == ListInsert(a, Event_bisect_right(a, x, 0, Len(a)), x)

\* The simulation and everything a call on it may change; Trace is what the
\* stages of process_event did, raised the exception that ended the call.
Sim ==
    [Time |-> Time, TimeMode |-> TimeMode, IsPaused |-> IsPaused,
     EventList |-> EventList,
     ClientCommands |-> ClientCommands, ClientMessages |-> ClientMessages,
     Entities |-> Entities,
     G_LAST_JITTER |-> G_LAST_JITTER, JitterCalls |-> JitterCalls,
     Queued |-> Queued,
     ag |-> agents,
     Markets |-> Markets, NamedOrders |-> NamedOrders, Submitted |-> Submitted,
     GLastOrderID |-> GLastOrderID,
     Trace |-> <<>>,
     raised |-> "none"]

\* queue_event.
queue_event(sim, event) ==
    [sim EXCEPT
        !.EventList = insort_right(@,
            [event EXCEPT !.Stamp = sim.Queued + 1,
                          !.Id = IF event.Id = 0 THEN sim.Queued + 1 ELSE event.Id]),
        !.Queued = @ + 1]

\* math.floor of a time in days, in ticks.
FloorDay(t) == (t \div DayTicks) * DayTicks

\* The CallTime without the second test of Simulation.add_entity.
FirstCallTime_floor_only(actual_time, now) ==
    IF actual_time < now
    THEN actual_time + FloorDay(now)
    ELSE actual_time

\* The CallTime Simulation.add_entity gives an event whose jittered first
\* time is actual_time.
FirstCallTime(actual_time, now) ==
    IF actual_time < now
    THEN IF actual_time + FloorDay(now) < now
         THEN actual_time + FloorDay(now) + DayTicks
         ELSE actual_time + FloorDay(now)
    ELSE actual_time

\* The loop of Simulation.add_entity over entity.register_events().
RECURSIVE RegisterEvents(_, _)
RegisterEvents(sim, event_list) ==
    IF event_list = <<>>
    THEN sim
    ELSE LET event == Head(event_list)[1]
             first_time == Head(event_list)[2]
             j == jitter_time(sim.G_LAST_JITTER, first_time)
             sim1 == [sim EXCEPT !.G_LAST_JITTER = j.last, !.JitterCalls = @ + 1]
         IN  RegisterEvents(
                queue_event(sim1, [event EXCEPT
                                    !.CallTime = FirstCallTime(j.value, sim.Time)]),
                Tail(event_list))

\* Simulation.add_entity, for an entity just constructed: GEntityDict has
\* it, and EntityList keeps it alive from now on.
Simulation_add_entity(sim, gid, event_list) ==
    RegisterEvents([sim EXCEPT !.Entities[gid] = NewEntity], event_list)

\* A queue_event_delay whose event repeats daily.
queue_event_delay_daily(sim, gid, callback, delay, data_requests) ==
    queue_event(sim, Event(gid, callback, sim.Time + delay, Some(DayTicks)))

\* Simulation.queue_event_delay; data_requests is None or the list given.
queue_event_delay(sim, gid, callback, delay, data_requests) ==
    LET event == Event(gid, callback, sim.Time + delay, None) IN
    queue_event(sim,
        IF data_requests # None
        THEN [event EXCEPT !.DataRequests = data_requests[1]]
        ELSE event)

\* ------------------------------------------------ the action pipeline
\* Simulation.MaxActionLimit.
MaxActionLimit == 100

\* What a stage of process_event did, and whether it changed the agents'
\* ledgers or an order book: before is the simulation when the stage began.
Staged(before, sim, stage, what) ==
    [sim EXCEPT !.Trace = Append(@,
        [Stage |-> stage, What |-> what, Action |-> None,
         Mutates |-> <<before.ag, before.Markets>> # <<sim.ag, sim.Markets>>])]

\* The drain stage of an action: the stage with the action that was run.
StagedAction(before, sim, action) ==
    [Staged(before, sim, "drain", action.action_type)
        EXCEPT !.Trace[Len(sim.Trace) + 1].Action = Some(action)]

\* request.run(self, ent): the data provider's value for a request.
Resolve(sim, gid, request) == Some(request)

\* The data-request loop of process_event: data_requests is a list of
\* (name, request) pairs.
RECURSIVE RunDataRequests(_, _, _)
RunDataRequests(sim, gid, data_requests) ==
    IF data_requests = <<>>
    THEN sim
    ELSE LET name == Head(data_requests)[1]
             request == Head(data_requests)[2]
             sim1 == [sim EXCEPT !.Entities[gid].ActionData[name] =
                                        Resolve(sim, gid, request)]
         IN  RunDataRequests(Staged(sim, sim1, "data", name), gid,
                             Tail(data_requests))

\* HouseholdSector.TargetMoney as constructed.
TargetMoney == 0

\* HouseholdSector.event_market_order.  amount is
\* floor(0.3 * available_money / (1.05 * ask)) and the order's price
\* int(1.05 * ask); for asks of 1 and 2 and balances up to 30 the float
\* results are the integer quotients below.  The callback is the first thing
\* in a run to touch the ledgers and the books, so it starts from the
\* simulation's current ones.
event_market_order(sim, gid) ==
    IF Len(Markets[ProducedCommodity].SellList) = 0
    THEN sim
    ELSE LET ask == Markets[ProducedCommodity].SellList[1].Price
             available_money == agents[gid].Money
                                - (TargetMoney + agents[gid].ReserveMoney)
             amount == (2 * available_money) \div (7 * ask)
         IN  IF amount < 1
             THEN sim
             ELSE The({[sim EXCEPT
                        !.ag = r.m.ag,
                        !.Markets[ProducedCommodity] =
                            [BuyList |-> r.m.BuyList, SellList |-> r.m.SellList,
                             LastPrice |-> r.m.LastPrice, LastTime |-> r.m.LastTime],
                        !.NamedOrders[gid] = r.named,
                        !.Submitted = Append(@,
                            [Agent |-> gid, Key |-> NamedKey("buy_", MarketOrderName),
                             Commodity |-> ProducedCommodity]),
                        !.GLastOrderID = @ - 1,
                        !.raised = r.m.raised] :
                    r \in {add_named_buy(ProducedCommodity, gid, MarketOrderName,
                             BaseOrder("BUY", (105 * ask) \div 100, amount, gid, TRUE))}})

\* event.Callback(**event.KWArgs).  A callback is known by its name and the
\* actions it appends with add_action; event_market_order is the household's,
\* which appends none.
RunCallback(sim, event) ==
    The({Staged(sim, sim1, "callback", event.Callback.Name) :
            sim1 \in {IF event.Callback.Name = "event_market_order"
                      THEN event_market_order(sim, event.GID)
                      ELSE [sim EXCEPT !.Entities[event.GID].ActionQueue =
                                            @ \o event.Callback.Adds]}})

\* A handler that appends what is left of its chain: More further actions,
\* or the same action again for ever when More is negative.
Spawn(sim, gid, action) ==
    IF action.More = 0
    THEN sim
    ELSE [sim EXCEPT !.Entities[gid].ActionQueue =
            Append(@, [action EXCEPT !.More = IF @ < 0 THEN @ ELSE @ - 1])]

\* action.run(self, ent): the handler registered for the action's type is
\* called with the simulation, the entity and the action's keywords.
RunAction(sim, gid, action) ==
    The({StagedAction(sim, sim1, action) :
            sim1 \in {IF action.action_type = "QueueEventWithDelay"
                      THEN queue_event_delay(sim, action.GID, action.callback,
                                             action.delay, action.data_requests)
                      ELSE IF action.action_type = "PayWages"
                      THEN The({[sim EXCEPT !.ag = r.ag, !.raised = r.raised] :
                                    r \in {PayWages(sim.ag, gid, action.amount)}})
                      ELSE Spawn(sim, gid, action)}})

\* The loop of process_event taking the action appended last (pop()).
DrainPass_pop_last(st, gid) ==
    IF st.over
    THEN st
    ELSE IF Len(st.sim.Entities[gid].ActionQueue) = 0
    THEN [st EXCEPT !.over = TRUE]
    ELSE IF st.cnt + 1 = MaxActionLimit
    THEN [st EXCEPT !.sim.raised = "ValueError", !.over = TRUE]
    ELSE The({[sim |-> sim2, cnt |-> st.cnt + 1, over |-> sim2.raised # "none"] :
                sim2 \in {RunAction(
                            [st.sim EXCEPT !.Entities[gid].ActionQueue =
                                                SubSeq(@, 1, Len(@) - 1)],
                            gid,
                            st.sim.Entities[gid].ActionQueue[
                                Len(st.sim.Entities[gid].ActionQueue)])}})

\* One pass of the `while len(ent.ActionQueue) > 0` loop of process_event.
\* st has the simulation, cnt, and over: whether the loop has been left,
\* for the empty queue or by an exception.
DrainPass(st, gid) ==
    IF st.over
    THEN st
    ELSE IF Len(st.sim.Entities[gid].ActionQueue) = 0
    THEN [st EXCEPT !.over = TRUE]
    ELSE IF st.cnt + 1 = MaxActionLimit
    THEN [st EXCEPT !.sim.raised = "ValueError", !.over = TRUE]
    ELSE The({[sim |-> sim2, cnt |-> st.cnt + 1, over |-> sim2.raised # "none"] :
                sim2 \in {RunAction(
                            [st.sim EXCEPT !.Entities[gid].ActionQueue = Tail(@)],
                            gid, Head(st.sim.Entities[gid].ActionQueue))}})

\* n passes of the loop, one after the other: the first half, then the rest.
RECURSIVE DrainPasses(_, _, _)
DrainPasses(st, gid, n) ==
    IF st.over
    THEN st
    ELSE IF n = 1
    THEN DrainPass(st, gid)
    ELSE The({DrainPasses(half, gid, n - n \div 2) :
                half \in {DrainPasses(st, gid, n \div 2)}})

\* The loop of process_event from `cnt = 0` on.  A pass that begins with cnt
\* at MaxActionLimit - 1 leaves the loop, so that MaxActionLimit - cnt
\* passes are all there can be.
Drain(sim, gid, cnt) ==
    DrainPasses([sim |-> sim, cnt |-> cnt, over |-> FALSE], gid,
                MaxActionLimit - cnt).sim

\* Simulation.get_entity: GEntityDict[gid], a KeyError if there is no entry.
get_entity(sim, gid) ==
    IF sim.Entities[gid].InDict THEN "none" ELSE "KeyError"

\* Simulation.process_event without the two assignments that clear the
\* entity's ActionData and ActionQueue.
process_event_uncleared(sim, event) ==
    IF get_entity(sim, event.GID) # "none"
    THEN [sim EXCEPT !.raised = get_entity(sim, event.GID)]
    ELSE The({IF sim3.raised # "none" THEN sim3 ELSE Drain(sim3, event.GID, 0) :
                sim3 \in {RunCallback(
                            RunDataRequests(sim, event.GID, event.DataRequests),
                            event)}})

\* Simulation.process_event.
process_event(sim, event) ==
    IF get_entity(sim, event.GID) # "none"
    THEN [sim EXCEPT !.raised = get_entity(sim, event.GID)]
    ELSE The({IF sim3.raised # "none" THEN sim3 ELSE Drain(sim3, event.GID, 0) :
                sim3 \in {RunCallback(
                            RunDataRequests(
                                [sim EXCEPT !.Entities[event.GID].ActionData = NoData,
                                            !.Entities[event.GID].ActionQueue = <<>>],
                                event.GID, event.DataRequests),
                            event)}})

\* ------------------------------------------------------------ process()
\* MsgPause / MsgUnpause / MsgTimeQuery .server_command.
server_command(sim, obj) ==
    IF obj.Msg = "MsgPause"
    THEN [sim EXCEPT !.IsPaused = TRUE]
    ELSE IF obj.Msg = "MsgUnpause"
    THEN [sim EXCEPT !.IsPaused = FALSE]
    ELSE [sim EXCEPT !.ClientMessages =
            Append(@, <<obj.ClientID,
                        [Msg |-> "MsgTimeQuery", ClientID |-> obj.ClientID,
                         is_paused |-> sim.IsPaused, ttime |-> sim.Time]>>)]

\* Simulation.process_command.
process_command(sim) ==
    server_command([sim EXCEPT !.ClientCommands = Tail(@)], Head(sim.ClientCommands))

\* Simulation.process_client_message_queue: list.pop() takes the last entry.
process_client_message_queue(sim) ==
    [sim EXCEPT !.ClientMessages = SubSeq(@, 1, Len(@) - 1)]

\* The smallest Repeat process() accepts is 0.01 of a day.
RepeatTooClose(repeat) == repeat * 100 < DayTicks

\* A re-queue that counts the period from the simulation's Time.
Requeue_from_now(sim, event) ==
    IF event.Repeat = None
    THEN sim
    ELSE IF RepeatTooClose(event.Repeat[1])
    THEN [sim EXCEPT !.raised = "ValueError"]
    ELSE queue_event(sim, [event EXCEPT !.CallTime = sim.Time + event.Repeat[1]])

\* What process() does with a repeating event after its callback has run.
Requeue(sim, event) ==
    IF event.Repeat = None
    THEN sim
    ELSE IF RepeatTooClose(event.Repeat[1])
    THEN [sim EXCEPT !.raised = "ValueError"]
    ELSE queue_event(sim, [event EXCEPT !.CallTime = @ + event.Repeat[1]])

\* The try/except of process() around process_event, which left sim1, and
\* what follows it.
AfterEvent(sim1, event) ==
    IF sim1.raised = "EntityDoesNotExist"
    THEN [sim |-> [sim1 EXCEPT !.raised = "none"], returned |-> Some(TRUE),
          unit |-> "event", event |-> Some(event)]
    ELSE IF sim1.raised = "EntityDead"
    THEN [sim |-> [sim1 EXCEPT !.raised = "NotImplementedError"],
          returned |-> None, unit |-> "event", event |-> Some(event)]
    ELSE IF sim1.raised # "none"
    THEN [sim |-> sim1, returned |-> None,
          unit |-> "event", event |-> Some(event)]
    ELSE The({[sim |-> sim2,
               returned |-> IF sim2.raised # "none" THEN None ELSE Some(TRUE),
               unit |-> "event", event |-> Some(event)] :
                sim2 \in {Requeue(sim1, event)}})

\* A process() that looks at the client messages before the commands.
process_messages_first(sim) ==
    IF Len(sim.ClientMessages) > 0
    THEN [sim |-> process_client_message_queue(sim), returned |-> Some(TRUE),
          unit |-> "message", event |-> None]
    ELSE IF Len(sim.ClientCommands) > 0
    THEN [sim |-> process_command(sim), returned |-> Some(TRUE),
          unit |-> "command", event |-> None]
    ELSE IF Len(sim.EventList) > 0 /\ sim.Time >= sim.EventList[1].CallTime
    THEN The({AfterEvent(sim1, Head(sim.EventList)) :
                sim1 \in {process_event([sim EXCEPT !.EventList = Tail(@)],
                                        Head(sim.EventList))}})
    ELSE [sim |-> sim, returned |-> Some(FALSE), unit |-> "none", event |-> None]

\* Simulation.process(): the simulation afterwards, what was returned (None
\* when the call raised), the unit of work chosen and the event popped.
process(sim) ==
    IF Len(sim.ClientCommands) > 0
    THEN [sim |-> process_command(sim), returned |-> Some(TRUE),
          unit |-> "command", event |-> None]
    ELSE IF Len(sim.ClientMessages) > 0
    THEN [sim |-> process_client_message_queue(sim), returned |-> Some(TRUE),
          unit |-> "message", event |-> None]
    ELSE IF Len(sim.EventList) > 0 /\ sim.Time >= sim.EventList[1].CallTime
    THEN The({AfterEvent(sim1, Head(sim.EventList)) :
                sim1 \in {process_event([sim EXCEPT !.EventList = Tail(@)],
                                        Head(sim.EventList))}})
    ELSE [sim |-> sim, returned |-> Some(FALSE), unit |-> "none", event |-> None]

\* Simulation.increment_time with the step up to the first event left out.
increment_time_uncapped(sim, elapsed) ==
    IF sim.TimeMode # "realtime"
    THEN [sim EXCEPT !.raised = "ValueError"]
    ELSE IF sim.IsPaused
    THEN sim
    ELSE IF Len(sim.EventList) > 0 /\ sim.Time >= sim.EventList[1].CallTime
    THEN sim
    ELSE [sim EXCEPT !.Time = sim.Time + elapsed]

\* Simulation.increment_time, elapsed being the monotonic clock's advance
\* divided by DayLength.
increment_time(sim, elapsed) ==
    IF sim.TimeMode # "realtime"
    THEN [sim EXCEPT !.raised = "ValueError"]
    ELSE IF sim.IsPaused
    THEN sim
    ELSE IF Len(sim.EventList) > 0
    THEN IF sim.Time >= sim.EventList[1].CallTime
         THEN sim
         ELSE IF sim.Time + elapsed < sim.EventList[1].CallTime
         THEN [sim EXCEPT !.Time = sim.Time + elapsed]
         ELSE [sim EXCEPT !.Time = sim.EventList[1].CallTime]
    ELSE [sim EXCEPT !.Time = sim.Time + elapsed]

\* ===================================================================
\* The scheduler on its own: entities that register events, delayed
\* events, client commands, the clock and process().
\* ===================================================================
\* Time is explored up to MaxTime ticks.
MaxTime == 2
\* Number of queue_event calls after which no entity is added and no event
\* is queued from outside a handler.
MaxQueued == 3
\* The lengths of EventList at which an event is added from outside a
\* handler; registration, handlers and repeaters add to longer queues.
OutsideLengths == {0, 1}

\* An action as add_action builds it: the type and the keywords.
NewAction(action_type) ==
    [action_type |-> action_type, GID |-> 0, callback |-> None, delay |-> 0,
     data_requests |-> None, amount |-> 0, More |-> 0]

\* ProducerLabour.event_hiring: a callback that appends no action.
Idle == [Name |-> "event_hiring", Adds |-> <<>>]

\* A callback that asks for an event for the same entity after a delay.
Delaying(gid, delay) ==
    [Name |-> "event_delaying",
     Adds |-> <<[NewAction("QueueEventWithDelay") EXCEPT
                    !.GID = gid, !.callback = Idle, !.delay = delay]>>]

DelayInputs == {0, 1}
RepeatInputs == {0, 1, 2}
\* First-time ranges of no width: the jittered time is the range's start.
SchedWindows == {<<0, 0>>, <<1, 1>>}

\* What a call that ended as sim leaves behind.
SimStep(sim) ==
    /\ Time' = sim.Time
    /\ TimeMode' = sim.TimeMode
    /\ IsPaused' = sim.IsPaused
    /\ EventList' = sim.EventList
    /\ ClientCommands' = sim.ClientCommands
    /\ ClientMessages' = sim.ClientMessages
    /\ Entities' = sim.Entities
    /\ G_LAST_JITTER' = sim.G_LAST_JITTER
    /\ JitterCalls' = sim.JitterCalls
    /\ Queued' = sim.Queued
    /\ agents' = sim.ag
    /\ Markets' = sim.Markets
    /\ NamedOrders' = sim.NamedOrders
    /\ Submitted' = sim.Submitted
    /\ GLastOrderID' = sim.GLastOrderID
    /\ UNCHANGED <<BuyList, SellList, LastPrice, LastTime, Accounting>>
    /\ UNCHANGED requestVars

\* Whether the callback of the popped event ran in a process() call.
CallbackRan(trace) == \E i \in 1..Len(trace) : trace[i].Stage = "callback"

\* The entity that is constructed and added to the simulation; no entity is
\* ever made for the other GIDs in EntityGIDs.
SchedEntity == HouseholdID

\* An entity is constructed and added: it registers no event or one
\* repeating event.
SAddEntity ==
    /\ ~Entities[SchedEntity].InDict
    /\ Queued < MaxQueued
    /\ \E event_list \in {<<>>} \cup
            {<<<<Event(SchedEntity, Idle, 0, Some(repeat)), first_time>>>> :
                repeat \in RepeatInputs, first_time \in SchedWindows} :
         \E sim \in {Simulation_add_entity(Sim, SchedEntity, event_list)} :
            /\ SimStep(sim)
            /\ Done' = NothingDone
            /\ UNCHANGED LastFired

\* queue_event_delay called from outside a handler.
SQueueEventDelay ==
    \E gid \in EntityGIDs, delay \in DelayInputs :
      \E callback \in {Idle} \cup {Delaying(gid, d) : d \in DelayInputs} :
        /\ Queued < MaxQueued
        /\ Len(EventList) \in OutsideLengths
        /\ \E sim \in {queue_event_delay(Sim, gid, callback, delay, None)} :
                SimStep(sim)
        /\ Done' = NothingDone
        /\ UNCHANGED LastFired

\* The entity is marked as dead.
SKill ==
    /\ Entities[SchedEntity].InDict
    /\ ~Entities[SchedEntity].IsDead
    /\ \E sim \in {[Sim EXCEPT !.Entities[SchedEntity].IsDead = TRUE]} : SimStep(sim)
    /\ Done' = NothingDone
    /\ UNCHANGED LastFired

\* In 'sim' mode nothing in the package moves Time: the driver assigns it,
\* forward.
SSetTime ==
    \E t \in (Time + 1)..MaxTime :
        /\ TimeMode = "sim"
        /\ \E sim \in {[Sim EXCEPT !.Time = t]} : SimStep(sim)
        /\ Done' = NothingDone
        /\ UNCHANGED LastFired

\* process().
Process ==
    \E sim \in {Sim} : \E r \in {process(sim)} :
        /\ SimStep(r.sim)
        /\ Done' = [Op |-> "process", returned |-> r.returned, raised |-> r.sim.raised,
                    unit |-> r.unit, event |-> r.event, Trace |-> r.sim.Trace,
                    target |-> IF r.event # None THEN Some(Entities[r.event[1].GID])
                               ELSE None]
        /\ LastFired' = IF r.event # None /\ CallbackRan(r.sim.Trace)
                        THEN r.event
                        ELSE LastFired

SchedNext ==
    \/ SAddEntity
    \/ SQueueEventDelay
    \/ SKill
    \/ SSetTime
    \/ Process

SchedSpecInit ==
    /\ agents = <<>>
    /\ BookInit
    /\ NamedInit
    /\ SchedInit

SpecSched == SchedSpecInit /\ [][SchedNext]_vars

\* Whether a process() call recorded in done popped an event and ran its
\* callback.
Fired(done) ==
    /\ done.Op = "process"
    /\ done.event # None
    /\ CallbackRan(done.Trace)

\* C13: across process() calls events fire in non-decreasing CallTime
\* order, and events of equal CallTime fire in the order in which they were
\* put in the queue, re-inserted repeaters and events queued by handlers
\* included: the event a call fires has a later CallTime than the event
\* fired before it, or the same CallTime and a later insertion.
C13_FiringOrder ==
    [][(Fired(Done') /\ LastFired # None)
        => \/ LastFired[1].CallTime < Done'.event[1].CallTime
           \/ /\ LastFired[1].CallTime = Done'.event[1].CallTime
              /\ LastFired[1].Stamp < Done'.event[1].Stamp]_vars

\* An event has fired while a repeater that was put back later, for the same
\* CallTime, waits its turn behind it.
C13_Witness ==
    /\ Fired(Done)
    /\ \E i \in 1..Len(EventList) :
          /\ EventList[i].CallTime = Done.event[1].CallTime
          /\ EventList[i].Stamp > Done.event[1].Stamp
          /\ EventList[i].Id # EventList[i].Stamp

\* Whether the event object popped by the call recorded in done is in the
\* queue.
InQueue(done) ==
    \E i \in 1..Len(EventList) : EventList[i].Id = done.event[1].Id

\* C14: when process() pops an event whose target GID no longer resolves or
\* whose entity is marked IsDead, the call completes without raising, the
\* callback is not run, the event is out of the queue and it is not
\* re-queued even if Repeat is set.
C14_DeadTargetDropped ==
    (/\ Done.Op = "process"
     /\ Done.event # None
     /\ \/ ~Done.target[1].InDict
        \/ Done.target[1].IsDead)
    => /\ Done.raised = "none"
       /\ Done.returned = Some(TRUE)
       /\ ~CallbackRan(Done.Trace)
       /\ ~InQueue(Done)

\* The positions in queue of the event object with this Id.
PlacesOf(queue, id) == {i \in 1..Len(queue) : queue[i].Id = id}

SpecSchedFair ==
    /\ SchedSpecInit
    /\ [][SchedNext]_vars
    /\ WF_vars(Process)
    /\ WF_vars(SSetTime)

\* queue_event_delay(gid, callback, delay) now would put one new event in the
\* queue, for gid, with CallTime now + delay and no Repeat.
QueuedAtDelay ==
    \A gid \in EntityGIDs, delay \in DelayInputs :
        \A sim \in {queue_event_delay(Sim, gid, Idle, delay, None)} :
            /\ Len(sim.EventList) = Len(EventList) + 1
            /\ Cardinality(PlacesOf(sim.EventList, Queued + 1)) = 1
            /\ \A i \in PlacesOf(sim.EventList, Queued + 1) :
                    /\ sim.EventList[i].CallTime = Time + delay
                    /\ sim.EventList[i].Repeat = None
                    /\ sim.EventList[i].GID = gid

\* A one-shot event whose target resolves.
OneShot(event) == event.Repeat = None /\ Entities[event.GID].InDict

\* A step leaves a fired one-shot event out of the queue, puts in the queue
\* only new events and the repeater just fired, and takes a one-shot event
\* whose target resolves out of the queue only by firing it, in a process()
\* call that returns True; an event a handler queues with a delay has
\* CallTime Time + delay and no Repeat.
OneShotStep ==
    /\ (Fired(Done') /\ Done'.event[1].Repeat = None)
        => PlacesOf(EventList', Done'.event[1].Id) = {}
    /\ \A j \in 1..Len(EventList') :
          \/ \E i \in 1..Len(EventList) : EventList[i] = EventList'[j]
          \/ EventList'[j].Id > Queued
          \/ /\ Fired(Done')
             /\ Done'.event[1].Repeat # None
             /\ Done'.event[1].Id = EventList'[j].Id
    /\ \A i \in 1..Len(EventList) :
          (OneShot(EventList[i]) /\ PlacesOf(EventList', EventList[i].Id) = {})
          => /\ Fired(Done')
             /\ Done'.event = Some(EventList[i])
             /\ Done'.returned = Some(TRUE)
             /\ Time >= EventList[i].CallTime
    /\ (Fired(Done') /\ Done'.event[1].Callback.Name = "event_delaying")
        => \E j \in PlacesOf(EventList', Queued + 1) :
             /\ EventList'[j].CallTime = Time + Done'.event[1].Callback.Adds[1].delay
             /\ EventList'[j].Repeat = None

\* No one-shot event is waiting whose target resolves and whose CallTime
\* the clock will reach.
NoOneShotWaiting ==
    \A i \in 1..Len(EventList) :
        ~(OneShot(EventList[i]) /\ EventList[i].CallTime <= MaxTime)

\* C16: an event queued by queue_event_delay(gid, callback, delay) at time
\* now has CallTime now + delay and no Repeat; if its target resolves, Time
\* advances to now + delay and process() keeps being called, it fires, and
\* it is absent from the queue afterwards and never put back, so that it
\* fires exactly once: such an event leaves the queue only by firing, and
\* again and again none is left waiting.
C16_DelayedFiresOnce ==
    /\ []QueuedAtDelay
    /\ [][OneShotStep]_vars
    /\ []<>NoOneShotWaiting

\* An event queued by a handler with a delay of one tick has fired at the
\* Time that is its CallTime, its target resolving, and is not in the queue.
C16_Witness ==
    /\ Fired(Done)
    /\ Done.raised = "none"
    /\ Done.event[1].Repeat = None
    /\ Done.event[1].Id > MaxQueued
    /\ Done.event[1].CallTime = Time
    /\ Time > 0
    /\ Done.target[1].InDict
    /\ PlacesOf(EventList, Done.event[1].Id) = {}

\* ===================================================================
\* The driver loop: a client sends commands, the clock runs in either
\* time mode, events are queued for an entity of the simulation, and
\* process() is called.
\* ===================================================================
\* The lengths of ClientCommands and of ClientMessages at which the client
\* sends one more command.
CommandLengths == {0, 1}
\* Client.ClientID of the one client, which the driver has put in ClientDict.
ClientIDs == {0}
CommandInputs == {"MsgPause", "MsgUnpause", "MsgTimeQuery"}
\* Advances of the monotonic clock between two increment_time calls, in
\* ticks of simulation time.
ElapsedInputs == {0, 1, 2}

\* Client.send_command.
DSendCommand ==
    \E msg \in CommandInputs, client_id \in ClientIDs :
        /\ Len(ClientCommands) \in CommandLengths
        /\ Len(ClientMessages) \in CommandLengths
        /\ \E sim \in {[Sim EXCEPT !.ClientCommands =
                            Append(@, [Msg |-> msg, ClientID |-> client_id])]} :
                SimStep(sim)
        /\ Done' = NothingDone
        /\ UNCHANGED LastFired

\* The driver switches the simulation to wall-clock time.
DRealtime ==
    /\ TimeMode = "sim"
    /\ \E sim \in {[Sim EXCEPT !.TimeMode = "realtime"]} : SimStep(sim)
    /\ Done' = NothingDone
    /\ UNCHANGED LastFired

\* increment_time(); in 'sim' mode it raises and leaves everything as it is.
DIncrementTime ==
    \E elapsed \in ElapsedInputs :
        \E sim \in {increment_time(Sim, elapsed)} :
            /\ sim.Time <= MaxTime
            /\ SimStep(sim)
            /\ Done' = NothingDone
            /\ UNCHANGED LastFired

\* queue_event_delay for the entity of the simulation.
DQueueEventDelay ==
    \E delay \in DelayInputs :
        /\ Queued < MaxQueued
        /\ \E sim \in {queue_event_delay(Sim, SchedEntity, Idle, delay, None)} :
                SimStep(sim)
        /\ Done' = NothingDone
        /\ UNCHANGED LastFired

DriverNext ==
    \/ DSendCommand
    \/ DRealtime
    \/ DIncrementTime
    \/ DQueueEventDelay
    \/ SSetTime
    \/ Process

DriverInit ==
    /\ agents = <<>>
    /\ BookInit
    /\ NamedInit
    /\ SchedInitWith({SchedEntity})

SpecDriver == DriverInit /\ [][DriverNext]_vars

\* The head event of the queue has reached its time.
HeadDue == Len(EventList) > 0 /\ Time >= EventList[1].CallTime

\* C17: each process() call performs at most one unit of work, chosen in
\* this order: one pending client command if any; otherwise one pending
\* client message if any; otherwise the head event of the queue, and only
\* if Time >= its CallTime; it returns False, having changed nothing,
\* exactly when none of these applies.
C17_OneUnitInOrder ==
    [][Done'.Op = "process" =>
        /\ Len(ClientCommands) > 0
            => /\ Done'.unit = "command"
               /\ ClientCommands' = Tail(ClientCommands)
               /\ Len(ClientMessages') >= Len(ClientMessages)
               /\ EventList' = EventList
        /\ (Len(ClientCommands) = 0 /\ Len(ClientMessages) > 0)
            => /\ Done'.unit = "message"
               /\ Len(ClientMessages') = Len(ClientMessages) - 1
               /\ UNCHANGED <<ClientCommands, EventList, IsPaused>>
        /\ (Len(ClientCommands) = 0 /\ Len(ClientMessages) = 0 /\ HeadDue)
            => /\ Done'.unit = "event"
               /\ Done'.event = Some(Head(EventList))
               /\ UNCHANGED <<ClientCommands, ClientMessages, IsPaused>>
        /\ Done'.unit = "event" => Time >= Done'.event[1].CallTime
        /\ Done'.returned = Some(FALSE)
            <=> (Len(ClientCommands) = 0 /\ Len(ClientMessages) = 0 /\ ~HeadDue)
        /\ Done'.returned = Some(FALSE)
            => /\ Done'.unit = "none"
               /\ UNCHANGED <<Time, TimeMode, IsPaused, EventList, ClientCommands,
                              ClientMessages, Entities, G_LAST_JITTER, agents,
                              Markets, NamedOrders>>
        /\ Time' = Time]_vars

\* A process() call has delivered a client message while the head event of
\* the queue was due, and has left the event where it was.
C17_Witness ==
    /\ Done.Op = "process"
    /\ Done.unit = "message"
    /\ Done.returned = Some(TRUE)
    /\ HeadDue
    /\ TimeMode = "realtime"

\* -------------------------------------------------- the wall clock
\* The commands that stop and start the clock.
PauseCommands == {"MsgPause", "MsgUnpause"}

\* Client.send_command of a pause or an unpause.
CSendCommand ==
    \E msg \in PauseCommands, client_id \in ClientIDs :
        /\ Len(ClientCommands) \in CommandLengths
        /\ \E sim \in {[Sim EXCEPT !.ClientCommands =
                            Append(@, [Msg |-> msg, ClientID |-> client_id])]} :
                SimStep(sim)
        /\ Done' = NothingDone
        /\ UNCHANGED LastFired

\* increment_time(), Done recording the call.
CIncrementTime ==
    \E elapsed \in ElapsedInputs :
        \E sim \in {increment_time(Sim, elapsed)} :
            /\ sim.Time <= MaxTime
            /\ SimStep(sim)
            /\ Done' = [Op |-> "increment_time", elapsed |-> elapsed,
                        before |-> Time, raised |-> sim.raised]
            /\ UNCHANGED LastFired

ClockNext ==
    \/ CSendCommand
    \/ DRealtime
    \/ CIncrementTime
    \/ DQueueEventDelay
    \/ Process

SpecClock == DriverInit /\ [][ClockNext]_vars

\* C26: in realtime mode increment_time never decreases Time, leaves it
\* as it is while the simulation is paused and when the earliest pending
\* event is already due, and otherwise advances it by the elapsed time, but
\* no further than the CallTime of the earliest pending event.
C26_ClockClamped ==
    [][(Done'.Op = "increment_time" /\ TimeMode = "realtime") =>
        /\ Done'.raised = "none"
        /\ Time' >= Time
        /\ IsPaused => Time' = Time
        /\ HeadDue => Time' = Time
        /\ (~IsPaused /\ Len(EventList) > 0 /\ ~HeadDue)
              => /\ Time' = Min(Time + Done'.elapsed, EventList[1].CallTime)
                 /\ Time' <= EventList[1].CallTime
        /\ (~IsPaused /\ Len(EventList) = 0) => Time' = Time + Done'.elapsed
        /\ UNCHANGED <<TimeMode, IsPaused, EventList>>]_vars

\* C26 where it matters: the clock, asked to advance past the earliest
\* pending event, has stopped at its CallTime.
C26_Witness ==
    /\ Done.Op = "increment_time"
    /\ Done.elapsed > 1
    /\ Done.before < Time
    /\ TimeMode = "realtime"
    /\ ~IsPaused
    /\ Len(EventList) > 0
    /\ Time = EventList[1].CallTime
    /\ Time = 1

\* ===================================================================
\* The jitter sequence: simulations are constructed one after another,
\* entities that register one event are added, utils.jitter_time is
\* called directly, and the clock moves.
\* ===================================================================
\* Simulation.__init__ on the state sim of the process: the entities and
\* the jitter index are reset, the queues emptied, Time put back to 0.
Simulation_init(sim) ==
    [sim EXCEPT !.Time = 0, !.TimeMode = "sim", !.IsPaused = TRUE,
                !.EventList = <<>>,
                !.ClientCommands = <<>>, !.ClientMessages = <<>>,
                !.Entities = [g \in DOMAIN sim.Entities |-> NoEntity],
                !.G_LAST_JITTER = reset_jitter(@), !.JitterCalls = 0]

\* The values test_jitter_time expects from successive jitter_time((0., 1.))
\* calls after a reset, in twentieths; its thirty values are these
\* twenty-one followed by the first nine again.
ExpectedJitter ==
    <<10, 1, 11, 2, 12, 3, 13, 4, 14, 5, 15, 6, 16, 7, 17, 8, 18, 9, 19, 20, 0>>

\* The value expected of the n-th jitter_time call since the reset, for
\* this range.
ExpectedTime(n, time_range) ==
    time_range[1]
    + (ExpectedJitter[((n - 1) % Len(ExpectedJitter)) + 1]
       * (time_range[2] - time_range[1])) \div JitterUnits

\* First-time ranges of one day and of two days.
JitterWindows == {<<0, DayTicks>>, <<DayTicks, 3 * DayTicks>>}
\* jitter_time calls explored after a reset: two rounds of the sequence and
\* the start of a third.
JitterCallsBound == 2 * Len(ExpectedJitter) + 2
\* The lengths of EventList at which an entity is added.
RegisteredLengths == {0, 1}

\* A new Simulation is constructed.
JNewSimulation ==
    /\ \E sim \in {Simulation_init(Sim)} : SimStep(sim)
    /\ Done' = [Op |-> "Simulation"]
    /\ UNCHANGED LastFired

\* An entity that registers one daily event is constructed and added.
JAddEntity ==
    \E gid \in {SchedEntity}, first_time \in JitterWindows :
        /\ JitterCalls < JitterCallsBound
        /\ Queued < MaxQueued
        /\ Len(EventList) \in RegisteredLengths
        /\ \E sim \in {Simulation_add_entity(Sim, gid,
                        <<<<Event(gid, Idle, 0, Some(DayTicks)), first_time>>>>)} :
                SimStep(sim)
        /\ Done' = [Op |-> "add_entity", first_time |-> first_time,
                    now |-> Time, n |-> JitterCalls + 1]
        /\ UNCHANGED LastFired

\* utils.jitter_time called directly.
JJitterTime ==
    \E time_range \in JitterWindows :
        /\ JitterCalls < JitterCallsBound
        /\ \E j \in {jitter_time(G_LAST_JITTER, time_range)} :
            /\ \E sim \in {[Sim EXCEPT !.G_LAST_JITTER = j.last,
                                         !.JitterCalls = @ + 1]} : SimStep(sim)
            /\ Done' = [Op |-> "jitter_time", time_range |-> time_range,
                        value |-> j.value, n |-> JitterCalls + 1]
        /\ UNCHANGED LastFired

JitterNext ==
    \/ JNewSimulation
    \/ JAddEntity
    \/ JJitterTime
    \/ SSetTime

SpecJitter == SchedSpecInit /\ [][JitterNext]_vars

\* The events add_entity has queued last: the one with this Id.
Registered(id) == {EventList[i] : i \in PlacesOf(EventList, id)}

\* C18: jitter_time depends only on its argument and on the number of calls
\* since reset_jitter, cycling with period 21, and the CallTime add_entity
\* gives a registered event depends only on the event's first-time range,
\* the Time of the call and the number of jitter_time calls since the
\* Simulation was constructed: two simulations built by the same sequence of
\* add_entity calls, each from a reset index, assign identical CallTimes.
C18_JitterDeterministic ==
    /\ G_LAST_JITTER = JitterCalls % Len(ExpectedJitter)
    /\ Done.Op = "jitter_time"
        => Done.value = ExpectedTime(Done.n, Done.time_range)
    /\ Done.Op = "add_entity"
        => /\ Cardinality(Registered(Queued)) = 1
           /\ \A event \in Registered(Queued) :
                event.CallTime
                    = FirstCallTime(ExpectedTime(Done.n, Done.first_time), Done.now)

\* In a simulation constructed after another one had queued an event, the
\* twenty-third jitter_time call since the construction registers an event
\* for a range of one day: the jittered time is a twentieth of a day, as for
\* the second call, and the CallTime a day later since the clock has passed
\* it.
C18_Witness ==
    /\ Done.Op = "add_entity"
    /\ Done.n = Len(ExpectedJitter) + 2
    /\ Done.first_time = <<0, DayTicks>>
    /\ Done.now > 1
    /\ Len(EventList) = 1
    /\ Queued > 1
    /\ \A event \in Registered(Queued) : event.CallTime = DayTicks + 1

\* ===================================================================
\* The pipeline of process_event in the economy: agents are admitted, paid
\* and produce, the producer posts named sell orders, events are queued for
\* the household and the producer, and process() fires them.
\* ===================================================================
\* HouseholdSector.event_market_order, which appends no action.
MarketOrderCallback == [Name |-> "event_market_order", Adds |-> <<>>]

\* A callback of an employer that asks for its wage bill to be paid.
Paying(amount) ==
    [Name |-> "event_production",
     Adds |-> <<[NewAction("PayWages") EXCEPT !.amount = amount]>>]

\* A callback whose one action starts a chain of n actions in all, each
\* handler appending the next; a chain without end when n is 0.
Chain(n) ==
    [Name |-> "event_chain",
     Adds |-> <<[NewAction("Spawn") EXCEPT !.More = n - 1]>>]

\* Chain lengths about MaxActionLimit, and the endless chain.
ChainInputs == {MaxActionLimit - 1, MaxActionLimit, MaxActionLimit + 1, 0}

\* The callbacks an event for gid may have.
PipelineCallbacks(gid) ==
    IF gid = HouseholdID
    THEN {MarketOrderCallback}
    ELSE {Paying(1)} \cup {Chain(n) : n \in ChainInputs}

\* The data requests an event may carry.
DataRequestInputs ==
    {<<>>, <<<<"JG_Wage", "wage">>, <<"Productivity", "productivity">>>>}
\* The numbers of events queued before at which one more is queued.
PipelineQueued == {0, 1}

\* queue_event_delay with no delay, for an agent of the economy, while the
\* queue is empty.
PQueueEventDelay ==
    \E gid \in EntityGIDs \cap DOMAIN agents, data_requests \in DataRequestInputs :
      \E callback \in PipelineCallbacks(gid) :
        /\ Queued \in PipelineQueued
        /\ Len(EventList) = 0
        /\ \E sim \in {queue_event_delay(Sim, gid, callback, 0, Some(data_requests))} :
                SimStep(sim)
        /\ Done' = NothingDone
        /\ UNCHANGED LastFired

\* process() in the economy.
PProcess ==
    /\ Process
    /\ InEconomy(agents')

PipelineNext ==
    \/ ActionProductionLabour
    \/ AddNamedSell
    \/ PQueueEventDelay
    \/ PProcess

\* The money the household sector is constructed with.
HouseholdBalances == {0, 5}

\* The economy once built: the government, the job guarantee, the household
\* sector and the producer have been added in this order.
PipelineInit ==
    /\ \E money \in HouseholdBalances, balance \in StartBalances :
         agents =
            add_entity(
                add_entity(
                    add_entity(CentralGovernmentID :> NewAgent("CentralGovernment", 0),
                               JobGuaranteeID, NewAgent("JobGuarantee", 0)),
                    HouseholdID, NewAgent("HouseholdSector", money)),
                FirmID, NewAgent("Agent", balance))
    /\ BookInit
    /\ NamedInit
    /\ SchedInitWith(CentralGovernmentID..FirmID)

SpecPipeline == PipelineInit /\ [][PipelineNext]_vars

\* C19: for every fired event, process_event resolves all of the event's
\* data requests into the entity's ActionData before invoking the callback,
\* and no action handler runs until the callback has returned: the stages
\* come in the order data, callback, drain, one data stage for each request,
\* and the ledgers and the order books are changed in the drain stage only.
C19_MutationsOnlyInDrain ==
    Fired(Done) =>
        /\ \A i, j \in 1..Len(Done.Trace) :
              i < j => <<Done.Trace[i].Stage, Done.Trace[j].Stage>>
                        \in {<<"data", "data">>, <<"data", "callback">>,
                             <<"data", "drain">>, <<"callback", "drain">>,
                             <<"drain", "drain">>}
        /\ \A k \in 1..Len(Done.event[1].DataRequests) :
              /\ Done.Trace[k].Stage = "data"
              /\ Done.Trace[k].What = Done.event[1].DataRequests[k][1]
        /\ \A i \in 1..Len(Done.Trace) :
              Done.Trace[i].Mutates => Done.Trace[i].Stage = "drain"

\* The number of actions the popped event's chain callback leads to, 0 for
\* the endless chain.
ChainLength(done) == done.event[1].Callback.Adds[1].More + 1

\* C20: a process_event run fails with the action-overflow error exactly
\* when it would process more than MaxActionLimit actions: a run that drains
\* at most MaxActionLimit actions completes normally, and a chain that keeps
\* appending actions is stopped by the ceiling.
C20_OverflowOnlyBeyondLimit ==
    (Fired(Done) /\ Done.event[1].Callback.Name = "event_chain")
    => (Done.raised = "ValueError"
        <=> (ChainLength(Done) = 0 \/ ChainLength(Done) > MaxActionLimit))

\* ===================================================================
\* Rejected calls on the ledger.
\* ===================================================================

\* The errors the money calls of an Agent raise.
MoneyErrors == {"NoMoneyError", "NoFreeMoneyError", "ReserveError", "ValueError"}

\* The amounts a money call is made with.
MoneyAmounts == -MaxAmount..MaxAmount

\* The field of an agent that holds the balance of a bucket.
BucketOf(a, bucket) ==
    IF bucket = "ORDERS" THEN a.ReserveOrders
    ELSE IF bucket = "WAGES" THEN a.ReserveWages
    ELSE a.ReserveTax

\* The outcomes of every receive_money, spend_money and change_reserves call
\* that can be made on agent g in the current state.
MoneyCalls(g) ==
    {receive_money(agents, g, amount) : amount \in MoneyAmounts}
    \cup {spend_money(agents, g, amount, bucket) :
            amount \in MoneyAmounts, bucket \in ReserveTypes}
    \cup {change_reserves(agents, g, change, bucket) :
            change \in MoneyAmounts, bucket \in ReserveTypes}

\* C21: a call of receive_money, spend_money or change_reserves that raises
\* (NoMoneyError, NoFreeMoneyError, ReserveError or ValueError) leaves Money,
\* ReserveMoney, ReserveOrders, ReserveWages and ReserveTax of every agent as
\* they were.  Stated of every call that can be made in the current state.
C21_RaiseChangesNoBalance ==
    \A g \in DOMAIN agents :
        \A r \in MoneyCalls(g) :
            r.raised # "none" => r.raised \in MoneyErrors /\ r.ag = agents

\* C21 where it matters: an agent with money and reserves on which calls
\* raising each of the four errors can be made.
C21_Witness ==
    \E g \in DOMAIN agents :
        /\ agents[g].Money > 0
        /\ agents[g].ReserveOrders > 0
        /\ MoneyErrors \subseteq {r.raised : r \in MoneyCalls(g)}
        /\ \E amount \in 1..MaxAmount :
              receive_money(agents, g, -amount).raised = "NoMoneyError"

\* ===================================================================
\* One inventory lot on its own: calls made directly on the InventoryInfo of
\* one agent.
\* ===================================================================
MaxLot == 3
MaxCost == 4

\* The arguments the calls are made with: every caller of add_inventory
\* passes a payment, which is not negative.
LotAmounts == -1..MaxLot
LotCosts == 0..MaxCost

\* The agent that holds the lot.
LotOwner == FirmID

\* The cost added to the lot so far, less the cost of goods the removals
\* returned.
Unreturned(done) == IF done.Op = "none" THEN 0 ELSE done.Unreturned

\* Whether a removal since the lot was last empty returned a rounded cost.
Rounded(done) == IF done.Op = "none" THEN FALSE ELSE done.Rounded

\* The lot stays within the explored box.
InLotBox(inv) ==
    /\ inv.Amount \in 0..MaxLot
    /\ inv.Cost \in 0..MaxCost
    /\ inv.Reserved \in -MaxLot..MaxLot

\* A call on the lot with outcome r: the lot is as the call left it, and
\* Done records the call.
LotStep(op, amount, cost, r) ==
    /\ InLotBox(r.inv)
    /\ agents' = [agents EXCEPT ![LotOwner].Inventory = r.inv]
    /\ Done' = [Op |-> op, amount |-> amount, raised |-> r.raised,
                cogs |-> r.cogs, before |-> agents[LotOwner].Inventory,
                Unreturned |-> Unreturned(Done) + cost - r.cogs,
                Rounded |->
                    IF /\ op = "remove_inventory"
                       /\ r.raised = "none"
                       /\ amount # agents[LotOwner].Inventory.Amount
                       /\ (agents[LotOwner].Inventory.Cost * amount)
                             % agents[LotOwner].Inventory.Amount # 0
                    THEN TRUE
                    ELSE IF agents[LotOwner].Inventory.Amount = 0
                    THEN FALSE
                    ELSE Rounded(Done)]
    /\ UNCHANGED <<Time, TimeMode, IsPaused, EventList, ClientCommands,
                   ClientMessages, Entities, G_LAST_JITTER, JitterCalls,
                   Queued, LastFired>>
    /\ UNCHANGED requestVars
    /\ UNCHANGED bookVars
    /\ UNCHANGED namedVars

IAddInventory ==
    \E amount \in LotAmounts, cost \in LotCosts :
        \E r \in {add_inventory(agents[LotOwner].Inventory, amount, cost)} :
            LotStep("add_inventory", amount,
                    IF r.raised = "none" THEN cost ELSE 0, r)

IChangeReserves ==
    \E amount \in -MaxLot..MaxLot :
        \E r \in {Inventory_change_reserves(agents[LotOwner].Inventory, amount)} :
            LotStep("change_reserves", amount, 0, r)

IRemoveInventory ==
    \E amount \in LotAmounts, from_reserve \in BOOLEAN :
        \E r \in {remove_inventory(agents[LotOwner].Inventory, amount, from_reserve)} :
            LotStep("remove_inventory", amount, 0, r)

InventoryNext == IAddInventory \/ IChangeReserves \/ IRemoveInventory

\* An agent as constructed: its lot is empty.
InventoryInit ==
    /\ agents = (LotOwner :> NewAgent("Agent", 0))
    /\ BookInit
    /\ NamedInit
    /\ SchedInit

SpecInventory == InventoryInit /\ [][InventoryNext]_vars

\* The lot of the owner.
Lot == agents[LotOwner].Inventory

\* C22: a call of add_inventory, remove_inventory or change_reserves on a
\* lot that raises leaves Amount, Cost and Reserved of the lot as they were
\* before the call.
C22_RaiseLeavesLot ==
    (Done.Op # "none" /\ Done.raised # "none") => Lot = Done.before

\* C23: after any sequence of add_inventory, remove_inventory and
\* change_reserves calls, successful or rejected, 0 <= Reserved <= Amount and
\* Cost >= 0.
C23_LotInvariant ==
    /\ 0 <= Lot.Reserved
    /\ Lot.Reserved <= Lot.Amount
    /\ Lot.Cost >= 0

\* Absolute value.
Abs(x) == IF x < 0 THEN -x ELSE x

\* C24: a successful remove_inventory returns the whole Cost when it
\* empties the lot and otherwise the integer nearest to Cost x removed /
\* Amount, the even one of two equally near; Cost falls by what is returned
\* and Amount by what is removed; so the cost added to a lot less the cost
\* returned is always the Cost of the lot, and a removal that empties the lot
\* leaves Amount = 0 and Cost = 0 with all the cost added returned.
C24_CogsRoundTrip ==
    /\ Unreturned(Done) = Lot.Cost
    /\ (Done.Op = "remove_inventory" /\ Done.raised = "none") =>
          LET b == Done.before
              off == Abs(Done.cogs * b.Amount - b.Cost * Done.amount)
          IN  /\ Lot.Amount = b.Amount - Done.amount
              /\ Lot.Cost = b.Cost - Done.cogs
              /\ IF Done.amount = b.Amount
                 THEN /\ Done.cogs = b.Cost
                      /\ Lot.Amount = 0
                      /\ Lot.Cost = 0
                      /\ Unreturned(Done) = 0
                 ELSE /\ 2 * off <= b.Amount
                      /\ (2 * off = b.Amount => Done.cogs % 2 = 0)

\* C24 where it matters: a partial removal whose cost was rounded has been
\* followed by the removal that empties the lot.
C24_Witness ==
    /\ Done.Op = "remove_inventory"
    /\ Done.raised = "none"
    /\ Done.amount > 0
    /\ Done.amount = Done.before.Amount
    /\ Done.cogs > 0
    /\ Rounded(Done)
    /\ Lot.Amount = 0

\* ===================================================================
\* Admission of agents to the economy.
\* ===================================================================

\* C25: once the CentralGovernment exists, add_entity of an entity whose
\* Money is b lowers the government's Money by exactly b and changes the
\* Money of no other agent, so the sum of Money over all agents is what it
\* was, and is 0 after the admission if it was 0 before.
C25_AdmissionOffset ==
    [][DOMAIN agents' # DOMAIN agents =>
          \A gid \in DOMAIN agents' \ DOMAIN agents :
            /\ DOMAIN agents' = DOMAIN agents \cup {gid}
            /\ CentralGovernmentID \in DOMAIN agents
            /\ agents'[CentralGovernmentID].Money =
                   agents[CentralGovernmentID].Money - agents'[gid].Money
            /\ \A g \in DOMAIN agents \ {CentralGovernmentID} :
                   agents'[g].Money = agents[g].Money
            /\ SumMoney(agents', DOMAIN agents') = SumMoney(agents, DOMAIN agents)
            /\ (SumMoney(agents, DOMAIN agents) = 0
                  => SumMoney(agents', DOMAIN agents') = 0)]_vars

\* C25 where it matters: every agent has been admitted, the household and
\* the firm with money, and the government owes what they started with.
C25_Witness ==
    /\ DOMAIN agents = CentralGovernmentID..FirmID
    /\ agents[HouseholdID].Money > 0
    /\ agents[FirmID].Money > 0
    /\ agents[CentralGovernmentID].Money =
           -(agents[HouseholdID].Money + agents[FirmID].Money)

\* ===================================================================
\* Entity.add_action: the calls that can be made on one entity.
\* ===================================================================
\* Action.GRequired once Simulation.register_actions and the registrations
\* of the tests have run: the keywords each action type requires.
GRequired ==
    [QueueEventWithDelay |-> {"GID", "callback", "delay", "data_requests"},
     TEST1 |-> {},
     TEST2 |-> {"x"}]

\* The action types calls are made with; 'Kabloom' is not registered.
ActionTypeInputs == DOMAIN GRequired \cup {"Kabloom"}

\* The keywords calls are made with.
KeywordInputs ==
    {{}, {"x"}, {"y"}, {"x", "y"},
     GRequired.QueueEventWithDelay,
     GRequired.QueueEventWithDelay \ {"delay"}}

\* A call of add_action: the action type if one is passed, how many further
\* arguments are passed by position, and the names of the keyword arguments.
AddActionCalls ==
    [action_type : {None} \cup {Some(t) : t \in ActionTypeInputs},
     positional : {0, 1},
     keywords : KeywordInputs]

\* Action.check_valid with the test of the required arguments left out.
check_valid_type_only(KWArgs) ==
    IF "action_type" \notin DOMAIN KWArgs
    THEN "InvalidActionArguments"
    ELSE IF KWArgs.action_type \notin DOMAIN GRequired
    THEN "InvalidActionArguments"
    ELSE "none"

\* Action.check_valid, for the keyword arguments KWArgs (a function from the
\* names to the values): what it raises.
check_valid(KWArgs) ==
    IF "action_type" \notin DOMAIN KWArgs
    THEN "InvalidActionArguments"
    ELSE IF KWArgs.action_type \notin DOMAIN GRequired
    THEN "InvalidActionArguments"
    ELSE IF \E arg \in GRequired[KWArgs.action_type] : arg \notin DOMAIN KWArgs
    THEN "InvalidActionArguments"
    ELSE "none"

\* Entity.add_action(action_type, **kwargs) on the queue of an entity.  The
\* signature takes the action type and nothing else by position: a call
\* without it, or with more, does not reach the body.
Entity_add_action(queue, call) ==
    IF call.action_type = None \/ call.positional > 0
    THEN [queue |-> queue, raised |-> "TypeError"]
    ELSE LET kwargs == [k \in call.keywords \cup {"action_type"} |->
                            IF k = "action_type" THEN call.action_type[1] ELSE 0]
         IN  IF check_valid(kwargs) # "none"
             THEN [queue |-> queue, raised |-> check_valid(kwargs)]
             ELSE [queue |-> Append(queue, [KWArgs |-> kwargs]), raised |-> "none"]

\* The queue is explored up to this length.
MaxActions == 2

AAddAction ==
    \E call \in AddActionCalls :
        \E r \in {Entity_add_action(Entities[SchedEntity].ActionQueue, call)} :
            /\ Len(r.queue) <= MaxActions
            /\ Entities' = [Entities EXCEPT ![SchedEntity].ActionQueue = r.queue]
            /\ Done' = [Op |-> "add_action", call |-> call, raised |-> r.raised,
                        before |-> Entities[SchedEntity].ActionQueue]
            /\ UNCHANGED <<Time, TimeMode, IsPaused, EventList, ClientCommands,
                           ClientMessages, G_LAST_JITTER, JitterCalls, Queued,
                           LastFired>>
            /\ UNCHANGED requestVars
            /\ UNCHANGED ledgerVars
            /\ UNCHANGED bookVars
            /\ UNCHANGED namedVars

ActionsNext == AAddAction

SpecActions == DriverInit /\ [][ActionsNext]_vars

\* The call passes no action type.
NoActionType(call) == call.action_type = None

\* The call passes an action type that is not registered.
Unregistered(call) ==
    call.action_type # None /\ call.action_type[1] \notin DOMAIN GRequired

\* The call passes a registered action type without one of the parameters
\* it requires.
MissingRequired(call) ==
    /\ call.action_type # None
    /\ call.action_type[1] \in DOMAIN GRequired
    /\ ~(GRequired[call.action_type[1]] \subseteq call.keywords)

\* Every Action in the queue has a registered type and the parameters
\* required for it.
QueueValid ==
    \A i \in 1..Len(Entities[SchedEntity].ActionQueue) :
        LET KWArgs == Entities[SchedEntity].ActionQueue[i].KWArgs
        IN  /\ KWArgs.action_type \in DOMAIN GRequired
            /\ GRequired[KWArgs.action_type] \subseteq DOMAIN KWArgs

\* C27 as stated: add_action with no action_type, an unregistered
\* action_type or a missing required parameter raises InvalidActionArguments
\* and leaves the ActionQueue as it was, and every Action in the queue has a
\* registered type and the parameters required for it.
C27_BadActionRejected ==
    /\ QueueValid
    /\ (/\ Done.Op = "add_action"
        /\ Done.call.positional = 0
        /\ \/ NoActionType(Done.call)
           \/ Unregistered(Done.call)
           \/ MissingRequired(Done.call))
          => /\ Done.raised = "InvalidActionArguments"
             /\ Entities[SchedEntity].ActionQueue = Done.before

\* C27 amended: add_action called with the keywords passed by name raises
\* InvalidActionArguments for an unregistered action_type and for a missing
\* required parameter; called with no action_type, or with parameters passed
\* by position, it raises TypeError; in each of these cases the ActionQueue
\* is as it was; every other call appends one Action; and every Action in
\* the queue has a registered type and the parameters required for it.
C27_BadActionRejected_Amended ==
    /\ QueueValid
    /\ Done.Op = "add_action" =>
          LET call == Done.call
              queue == Entities[SchedEntity].ActionQueue
          IN  IF NoActionType(call) \/ call.positional > 0
              THEN Done.raised = "TypeError" /\ queue = Done.before
              ELSE IF Unregistered(call) \/ MissingRequired(call)
              THEN Done.raised = "InvalidActionArguments" /\ queue = Done.before
              ELSE /\ Done.raised = "none"
                   /\ Len(queue) = Len(Done.before) + 1
                   /\ SubSeq(queue, 1, Len(Done.before)) = Done.before
                   /\ queue[Len(queue)].KWArgs.action_type = call.action_type[1]
                   /\ DOMAIN queue[Len(queue)].KWArgs
                        = call.keywords \cup {"action_type"}

\* C27 where it matters: a call that lacks a required parameter has been
\* rejected on an entity with an Action in its queue.
C27_Witness ==
    /\ Done.Op = "add_action"
    /\ MissingRequired(Done.call)
    /\ Done.call.positional = 0
    /\ Done.raised = "InvalidActionArguments"
    /\ Len(Entities[SchedEntity].ActionQueue) > 0

\* C28: for an ordinary agent and amount >= 0, spend_money raises
\* NoMoneyError iff amount > Money; otherwise with bucket NONE it raises
\* NoFreeMoneyError iff amount + ReserveMoney > Money, and with a specific
\* bucket it raises NoFreeMoneyError iff amount exceeds the balance of that
\* bucket; in every other case it succeeds, and a successful spend from a
\* specific bucket lowers that bucket and ReserveMoney by amount each and
\* leaves the other buckets alone.  Stated of every call that can be made
\* in the current state.
C28_SpendOutcomes ==
    \A g \in DOMAIN agents :
        Ordinary(agents[g]) =>
            \A amount \in 0..MaxAmount, bucket \in ReserveTypes :
                \A r \in {spend_money(agents, g, amount, bucket)} :
                    LET a == agents[g]
                        short == amount > a.Money
                        unfree == IF bucket = "NONE"
                                  THEN amount + a.ReserveMoney > a.Money
                                  ELSE amount > BucketOf(a, bucket)
                    IN  /\ r.raised = "NoMoneyError" <=> short
                        /\ r.raised = "NoFreeMoneyError" <=> (~short /\ unfree)
                        /\ r.raised = "none" <=> (~short /\ ~unfree)
                        /\ (r.raised = "none" /\ bucket # "NONE") =>
                              /\ BucketOf(r.ag[g], bucket)
                                    = BucketOf(a, bucket) - amount
                              /\ r.ag[g].ReserveMoney = a.ReserveMoney - amount
                              /\ \A other \in ReserveTypes \ {"NONE", bucket} :
                                    BucketOf(r.ag[g], other) = BucketOf(a, other)

\* C28 where it matters: an ordinary agent with free money and money in a
\* bucket, on which a spend from the bucket succeeds, one from an empty
\* bucket and one beyond the free money are refused, and one beyond Money
\* too.
C28_Witness ==
    \E g \in DOMAIN agents :
        /\ Ordinary(agents[g])
        /\ agents[g].ReserveOrders > 0
        /\ agents[g].Money > agents[g].ReserveMoney
        /\ spend_money(agents, g, 1, "ORDERS").raised = "none"
        /\ spend_money(agents, g, 1, "NONE").raised = "none"
        /\ spend_money(agents, g, 1, "WAGES").raised = "NoFreeMoneyError"
        /\ spend_money(agents, g, MaxAmount, "NONE").raised = "NoFreeMoneyError"
        /\ spend_money(agents, g, agents[g].Money + 1, "ORDERS").raised
              = "NoMoneyError"

\* What change_reserves(delta, bucket) on agent g does, given whether the
\* agent counts as exempt from the test of an increase: it raises
\* NoFreeMoneyError for delta > 0 iff the agent is not exempt and delta +
\* ReserveMoney > Money, ReserveError for delta < 0 iff the bucket holds less
\* than -delta, and otherwise changes the bucket and ReserveMoney by delta
\* and nothing else.
ChangeReservesOutcome(g, delta, bucket, exempt) ==
    \A r \in {change_reserves(agents, g, delta, bucket)} :
        LET a == agents[g]
            refused == IF delta > 0
                       THEN (~exempt) /\ delta + a.ReserveMoney > a.Money
                       ELSE BucketOf(a, bucket) < -delta
        IN  /\ r.raised = "NoFreeMoneyError" <=> (delta > 0 /\ refused)
            /\ r.raised = "ReserveError" <=> (delta < 0 /\ refused)
            /\ r.raised = "none" <=> ~refused
            /\ r.raised = "none" =>
                  /\ BucketOf(r.ag[g], bucket) = BucketOf(a, bucket) + delta
                  /\ r.ag[g].ReserveMoney = a.ReserveMoney + delta
                  /\ r.ag[g].Money = a.Money
                  /\ \A other \in ReserveTypes \ {"NONE", bucket} :
                        BucketOf(r.ag[g], other) = BucketOf(a, other)
                  /\ \A h \in DOMAIN agents \ {g} : r.ag[h] = agents[h]

\* The deltas and buckets C29 is about.
ReserveDeltas == (-MaxAmount..MaxAmount) \ {0}
Buckets == ReserveTypes \ {"NONE"}

\* C29: change_reserves(delta, bucket) raises NoFreeMoneyError for delta > 0
\* iff the agent is not a central-government agent and delta + ReserveMoney
\* > Money, raises ReserveError for delta < 0 iff the bucket holds less than
\* -delta, and on success changes the bucket and ReserveMoney by exactly
\* delta, Money and the other buckets staying as they were.  Stated of every
\* call that can be made in the current state, the central-government
\* agents being the CentralGovernment and its JobGuarantee.
C29_ChangeReservesOutcomes ==
    \A g \in DOMAIN agents :
        \A delta \in ReserveDeltas, bucket \in Buckets :
            ChangeReservesOutcome(g, delta, bucket, ~Ordinary(agents[g]))

\* C30: spend_money with amount < 0 on an ordinary agent is rejected for
\* every bucket, NONE included, and changes no balance.  Stated of every
\* call that can be made in the current state.
C30_NegativeSpendRejected ==
    \A g \in DOMAIN agents :
        Ordinary(agents[g]) =>
            \A amount \in (-MaxAmount)..(-1), bucket \in ReserveTypes :
                \A r \in {spend_money(agents, g, amount, bucket)} :
                    r.raised # "none" /\ r.ag = agents

\* ===================================================================
\* Orders the ledger refuses.
\* ===================================================================

\* The market operation m left the queues, the last trade and every agent
\* as they are.
NothingMoved(m) ==
    /\ m.BuyList = BuyList
    /\ m.SellList = SellList
    /\ m.LastPrice = LastPrice
    /\ m.LastTime = LastTime
    /\ m.ag = agents

\* The 'add' reservation of an order of this type is refused to the agent.
AddRefused(firm_gid, order_type, amount, price) ==
    Agent_do_accounting(agents, firm_gid, order_type, "add", amount, price).raised
        # "none"

\* The amounts an order can be made with.
OrderAmounts == {amount \in AmountInputs : ~BadAmount(amount)}

\* C31: when the 'add' reservation of add_buy or add_sell is rejected
\* (not enough free money for a buy, not enough unreserved inventory for a
\* sell) the call raises before any matching: the order is in neither
\* queue, both queues, LastPrice and LastTime are as they were, and so are
\* the money, reserves and inventory of every agent.  Stated of every order
\* that can be submitted in the current state.
C31_RefusedOrderChangesNothing ==
    \A amount \in OrderAmounts, price \in PriceInputs :
        /\ \A firm_gid \in Buyers \cap DOMAIN agents :
              AddRefused(firm_gid, "BUY", amount, price) =>
                \A m \in {add_buy(Market("Market"),
                                  BaseOrder("BUY", price, amount, firm_gid, TRUE))} :
                    m.raised = "NoFreeMoneyError" /\ NothingMoved(m)
        /\ \A firm_gid \in Sellers \cap DOMAIN agents :
              AddRefused(firm_gid, "SELL", amount, price) =>
                \A m \in {add_sell(Market("Market"),
                                   BaseOrder("SELL", price, amount, firm_gid, TRUE))} :
                    m.raised = "ValueError" /\ NothingMoved(m)

\* C31 where it matters: the household has an order resting and cannot
\* reserve for another, which would trade with the ask that rests if it
\* were let in.
C31_Witness ==
    /\ HouseholdID \in DOMAIN agents
    /\ Len(SellList) > 0
    /\ \E i \in 1..Len(BuyList) : BuyList[i].FirmGID = HouseholdID
    /\ \E amount \in OrderAmounts, price \in PriceInputs :
          /\ AddRefused(HouseholdID, "BUY", amount, price)
          /\ price >= SellList[1].Price

\* ------------------------------------------ named orders the ledger refuses
\* The order under the key is resting in the queue and is the agent's own.
NamedResting(Orders, agent, key) ==
    /\ NamedOrders[agent][key] # None
    /\ Resting(Orders, NamedOrders[agent][key][1])

\* What the replacement leaves of the order that was under the key: the
\* order is in the queue it was in, and the agent and its NamedOrders are as
\* they were before the call.
PreviousStands(r, Orders, agent, key) ==
    /\ Resting(Orders, NamedOrders[agent][key][1])
    /\ r.m.ag[agent] = agents[agent]
    /\ r.named = NamedOrders[agent]

\* C32: when add_named_buy / add_named_sell raises because the new order
\* cannot be reserved, the agent's previous order under that name is still
\* resting with its reservation intact and NamedOrders is unchanged.  Stated
\* of every named submission that can be made in the current state by an
\* agent whose order under the name rests in the book.
C32_RefusedNamedKeepsPrevious ==
    \A amount \in OrderAmounts, price \in PriceInputs, name \in OrderNames :
        /\ \A agent \in Buyers \cap DOMAIN agents, commodity_id \in CommodityIDs :
              NamedResting(Markets[commodity_id].BuyList, agent, NamedKey("buy_", name)) =>
                \A r \in {add_named_buy(commodity_id, agent, name,
                              BaseOrder("BUY", price, amount, agent, TRUE))} :
                    r.m.raised = "NoFreeMoneyError" =>
                        PreviousStands(r, r.m.BuyList, agent, NamedKey("buy_", name))
        /\ \A agent \in Sellers \cap DOMAIN agents :
              NamedResting(Markets[ProducedCommodity].SellList, agent, NamedKey("sel_", name)) =>
                \A r \in {add_named_sell(ProducedCommodity, agent, name,
                              BaseOrder("SELL", price, amount, agent, TRUE))} :
                    r.m.raised = "ValueError" =>
                        PreviousStands(r, r.m.SellList, agent, NamedKey("sel_", name))

\* ===================================================================
\* The action queue of one run.  Events whose callbacks append several
\* actions, some of which append further ones while the queue is drained,
\* are fired in the built economy; actions are also appended to an entity
\* outside any event.
\* ===================================================================
\* The longest chain an action starts after itself.
MaxMore == 2

\* The numbers of actions a callback appends.
AddCounts == {1, 2}

\* The entity the events are for.
DrainTarget == FirmID

\* The actions that can be appended in place label of a list: handlers that
\* append what is left of their chain, and the payment of a wage bill.  The
\* amount keyword tells the actions of one list apart.
BranchActions(label) ==
    {[NewAction("Spawn") EXCEPT !.amount = label, !.More = more] : more \in 0..MaxMore}
    \cup {[NewAction("PayWages") EXCEPT !.amount = label]}

\* The lists of n of these actions.
RECURSIVE ActionLists(_)
ActionLists(n) ==
    IF n = 0
    THEN {<<>>}
    ELSE {Append(list, action) : list \in ActionLists(n - 1),
                                  action \in BranchActions(n)}

\* The callbacks: each appends a list of actions with add_action.  The chain
\* of MaxActionLimit actions is the one the ceiling stops.
BranchCallbacks ==
    {[Name |-> "event_branch", Adds |-> adds] :
        adds \in UNION {ActionLists(n) : n \in AddCounts}}
    \cup {Chain(MaxActionLimit)}

\* queue_event_delay with no delay while the queue is empty.
BQueueEventDelay ==
    \E gid \in {DrainTarget}, data_requests \in DataRequestInputs,
       callback \in BranchCallbacks :
        /\ Queued \in PipelineQueued
        /\ Len(EventList) = 0
        /\ \E sim \in {queue_event_delay(Sim, gid, callback, 0, Some(data_requests))} :
                SimStep(sim)
        /\ Done' = NothingDone
        /\ UNCHANGED LastFired

\* ent.add_action(...) called on an entity while no event of it is running
\* and its queue is empty.
BAddAction ==
    \E gid \in {DrainTarget}, action \in BranchActions(1) :
        /\ Entities[gid].ActionQueue = <<>>
        /\ Entities' = [Entities EXCEPT ![gid].ActionQueue = Append(@, action)]
        /\ Done' = NothingDone
        /\ UNCHANGED <<Time, TimeMode, IsPaused, EventList, ClientCommands,
                       ClientMessages, G_LAST_JITTER, JitterCalls, Queued,
                       LastFired>>
        /\ UNCHANGED requestVars
        /\ UNCHANGED ledgerVars
        /\ UNCHANGED bookVars
        /\ UNCHANGED namedVars

DrainNext ==
    \/ BQueueEventDelay
    \/ BAddAction
    \/ PProcess

SpecDrain == PipelineInit /\ [][DrainNext]_vars

\* The actions the drain of a run executed, in the order it ran them.
RECURSIVE Executed(_)
Executed(trace) ==
    IF trace = <<>>
    THEN <<>>
    ELSE IF Head(trace).Stage = "drain"
    THEN <<Head(trace).Action[1]>> \o Executed(Tail(trace))
    ELSE Executed(Tail(trace))

\* What the handlers of a list of actions append, handler by handler.
RECURSIVE Appended(_)
Appended(actions) ==
    IF actions = <<>>
    THEN <<>>
    ELSE IF Head(actions).action_type = "Spawn" /\ Head(actions).More > 0
    THEN <<[Head(actions) EXCEPT !.More = @ - 1]>> \o Appended(Tail(actions))
    ELSE Appended(Tail(actions))

\* The order of appending: the callback's actions, then what their handlers
\* append, then what the handlers of those append, and so on.
RECURSIVE AppendOrder(_)
AppendOrder(actions) ==
    IF actions = <<>>
    THEN <<>>
    ELSE actions \o AppendOrder(Appended(actions))

\* s is the beginning of t.
IsPrefix(s, t) == Len(s) <= Len(t) /\ SubSeq(t, 1, Len(s)) = s

\* The last process() fired an event whose callback appended a list of
\* actions.
Branched(done) == Fired(done) /\ done.event[1].Callback.Name = "event_branch"

\* C33: within one process_event run the actions are executed in exactly the
\* order they were appended, those appended by handlers during the drain
\* after all that were queued before them; when the run completes normally
\* every appended action has been run and the entity's ActionQueue is empty.
C33_DrainInAppendOrder ==
    Branched(Done) =>
        /\ IsPrefix(Executed(Done.Trace), AppendOrder(Done.event[1].Callback.Adds))
        /\ Done.raised = "none" =>
              /\ Executed(Done.Trace) = AppendOrder(Done.event[1].Callback.Adds)
              /\ Entities[Done.event[1].GID].ActionQueue = <<>>

\* A run that completed, in which a handler appended an action while an
\* action of the callback was still waiting.
C33_Witness ==
    /\ Branched(Done)
    /\ Done.raised = "none"
    /\ Len(Done.event[1].Callback.Adds) = 2
    /\ Done.event[1].Callback.Adds[1].More > 0
    /\ Done.event[1].Callback.Adds[1].amount # Done.event[1].Callback.Adds[2].amount
    /\ Len(Executed(Done.Trace)) > 2

\* The names of the data requests of an event.
Requested(event) == {event.DataRequests[k][1] : k \in 1..Len(event.DataRequests)}

\* C34: at the start of every process_event run the target entity's
\* ActionQueue and ActionData are emptied: whatever the entity's queue and
\* data held when the event fired (left by an earlier run, also one aborted
\* by an error or by the overflow guard, or appended outside an event), the
\* run executes the actions of its own callback and handlers only, and the
\* entity's ActionData holds the values of this event's requests only.
C34_RunStartsEmpty ==
    Branched(Done) =>
        /\ IsPrefix(Executed(Done.Trace), AppendOrder(Done.event[1].Callback.Adds))
        /\ \A name \in DataNames :
              Entities[Done.event[1].GID].ActionData[name] # None
              <=> name \in Requested(Done.event[1])

\* An event without data requests fired and completed on an entity whose
\* queue held the action an overflowing run had left and whose ActionData
\* held the values of that run.
C34_Witness ==
    /\ Branched(Done)
    /\ Done.raised = "none"
    /\ Done.event[1].DataRequests = <<>>
    /\ Done.target[1].ActionQueue # <<>>
    /\ Done.target[1].ActionQueue[1].amount = 0
    /\ Done.target[1].ActionData # NoData
    /\ Executed(Done.Trace) # <<>>

\* ===================================================================
\* data_requests.ActionDataRequestHolder.
\* ===================================================================
\* ActionDataRequestHolder.GRequired as data_requests.py registers it.
Holder_GRequired ==
    [query \in {"Productivity", "JG_Wage", "CommodityID"} |->
        IF query = "JG_Wage" THEN {} ELSE {"commodity"}]

\* The requests passed in: with or without a 'request' entry, of a kind
\* that is registered or not, and with the parameters named.
RequestInputs ==
    [request : {None} \cup {Some(q) : q \in {"JG_Wage", "Productivity",
                                              "NONEXISTENT_REQUEST"}},
     params : {{}, {"commodity"}, {"x"}}]

\* assert_key_valid, of the entry info = self.DataDict[kkey].
assert_key_valid(info) ==
    IF info.request = None
    THEN "ActionDataParameterError"
    ELSE IF info.request[1] \notin DOMAIN Holder_GRequired
    THEN "ActionDataParameterError"
    ELSE IF \E param \in Holder_GRequired[info.request[1]] : param \notin info.params
    THEN "ActionDataParameterError"
    ELSE "none"

\* assert_valid, of a DataDict.
assert_valid(data_dict) ==
    IF \E kkey \in KeyInputs :
            data_dict[kkey] # None /\ assert_key_valid(data_dict[kkey][1]) # "none"
    THEN "ActionDataParameterError"
    ELSE "none"

\* What a holder is constructed from: nothing, a dict, another holder, or
\* an object that is neither.
CtorInputs ==
    {[type |-> "None"], [type |-> "int"]}
    \cup {[type |-> "dict", dict |-> d] :
            d \in [KeyInputs -> {None} \cup {Some(r) : r \in RequestInputs}]}
    \cup {[type |-> "ActionDataRequestHolder", holder |-> h] : h \in HolderIDs}

\* ActionDataRequestHolder.__init__ for the object h.  An exception out of
\* the constructor leaves no object.
Holder_init(h, data_dict) ==
    IF data_dict.type = "None"
    THEN [Holders |-> [Holders EXCEPT ![h] = Some(h)],
          DataDicts |-> [DataDicts EXCEPT ![h] = EmptyDict], raised |-> "none"]
    ELSE IF data_dict.type = "dict"
    THEN IF assert_valid(data_dict.dict) # "none"
         THEN [Holders |-> Holders, DataDicts |-> DataDicts,
               raised |-> assert_valid(data_dict.dict)]
         ELSE [Holders |-> [Holders EXCEPT ![h] = Some(h)],
               DataDicts |-> [DataDicts EXCEPT ![h] = data_dict.dict],
               raised |-> "none"]
    ELSE IF data_dict.type = "ActionDataRequestHolder" /\ Holders[data_dict.holder] # None
    THEN IF assert_valid(DataDicts[Holders[data_dict.holder][1]]) # "none"
         THEN [Holders |-> Holders, DataDicts |-> DataDicts,
               raised |-> "ActionDataParameterError"]
         ELSE [Holders |-> [Holders EXCEPT ![h] = Holders[data_dict.holder]],
               DataDicts |-> DataDicts, raised |-> "none"]
    ELSE [Holders |-> Holders, DataDicts |-> DataDicts, raised |-> "ValueError"]

\* ActionDataRequestHolder.add_request on the holder h.
add_request(h, kkey, request) ==
    [Holders |-> Holders,
     DataDicts |-> [DataDicts EXCEPT ![Holders[h][1]][kkey] = Some(request)],
     raised |-> assert_key_valid(request)]

\* What a call on the holders that ended as r leaves behind.
RequestStep(op, h, r) ==
    /\ Holders' = r.Holders
    /\ DataDicts' = r.DataDicts
    /\ Done' = [Op |-> op, holder |-> h, raised |-> r.raised]
    /\ UNCHANGED <<Time, TimeMode, IsPaused, EventList, ClientCommands,
                   ClientMessages, Entities, G_LAST_JITTER, JitterCalls,
                   Queued, LastFired>>
    /\ UNCHANGED ledgerVars
    /\ UNCHANGED bookVars
    /\ UNCHANGED namedVars

\* h = ActionDataRequestHolder(data_dict), for a holder not yet constructed.
HConstruct ==
    \E h \in HolderIDs, data_dict \in CtorInputs :
        /\ Holders[h] = None
        /\ \E r \in {Holder_init(h, data_dict)} : RequestStep("ActionDataRequestHolder", h, r)

\* h.add_request(kkey, request).
HAddRequest ==
    \E h \in HolderIDs, kkey \in KeyInputs, request \in RequestInputs :
        /\ Holders[h] # None
        /\ \E r \in {add_request(h, kkey, request)} : RequestStep("add_request", h, r)

RequestsNext == HConstruct \/ HAddRequest

SpecRequests == DriverInit /\ [][RequestsNext]_vars

\* C35: after any sequence of ActionDataRequestHolder constructions and
\* add_request calls, rejected ones included, the DataDict of every holder
\* contains only requests that name a registered request kind and include
\* every parameter required for that kind.
C35_DataDictValid ==
    \A h \in HolderIDs :
        Holders[h] # None => assert_valid(DataDicts[Holders[h][1]]) = "none"

\* ===================================================================
\* The first CallTime of a registered event.  The clock is anywhere in the
\* first days, the jitter sequence anywhere in its cycle, and an entity that
\* registers one daily event is added.
\* ===================================================================
\* The latest Time at which the entity is added, in ticks: two days and a
\* quarter.
MaxClock == 45

\* First-time windows within a day, (lo, hi) with 0 <= lo <= hi <= 1 day:
\* the points of a day's start, middle and end, and the whole day.  Their
\* jittered points are whole ticks.
FirstWindows ==
    {<<0, 0>>, <<DayTicks \div 2, DayTicks \div 2>>, <<DayTicks, DayTicks>>,
     <<0, DayTicks>>}

\* The driver moves Time forward before the entity is added.
TSetTime ==
    \E t \in (Time + 1)..MaxClock :
        /\ TimeMode = "sim"
        /\ Queued = 0
        /\ \E sim \in {[Sim EXCEPT !.Time = t]} : SimStep(sim)
        /\ Done' = NothingDone
        /\ UNCHANGED LastFired

\* jitter_time called for other entities before this one is added.
TJitterTime ==
    \E time_range \in FirstWindows :
        /\ JitterCalls < Cardinality(DOMAIN G_JITTER)
        /\ Queued = 0
        /\ \E j \in {jitter_time(G_LAST_JITTER, time_range)} :
            /\ \E sim \in {[Sim EXCEPT !.G_LAST_JITTER = j.last,
                                         !.JitterCalls = @ + 1]} : SimStep(sim)
            /\ Done' = [Op |-> "jitter_time", time_range |-> time_range,
                        value |-> j.value, n |-> JitterCalls + 1]
        /\ UNCHANGED LastFired

\* The entity is constructed and added; it registers one daily event.
TAddEntity ==
    \E gid \in {SchedEntity}, first_time \in FirstWindows :
        /\ Queued = 0
        /\ \E sim \in {Simulation_add_entity(Sim, gid,
                        <<<<Event(gid, Idle, 0, Some(DayTicks)), first_time>>>>)} :
                SimStep(sim)
        /\ Done' = [Op |-> "add_entity", first_time |-> first_time,
                    now |-> Time, n |-> JitterCalls + 1]
        /\ UNCHANGED LastFired

FirstTimeNext == TSetTime \/ TJitterTime \/ TAddEntity

SpecFirstTime == SchedSpecInit /\ [][FirstTimeNext]_vars

\* The jittered point of the window: the entry of G_JITTER the last
\* jitter_time call used is the one at G_LAST_JITTER.
JitteredPoint(time_range) ==
    time_range[1] + (G_JITTER[G_LAST_JITTER] * (time_range[2] - time_range[1]))
                        \div JitterUnits

\* C36: when add_entity registers a recurring event whose first-time window
\* (lo, hi) has 0 <= lo <= hi <= 1 while the Time is T >= 0, the initial
\* CallTime is never before T and differs from the jittered point of the
\* window by a whole number of days.
C36_FirstCallTime ==
    Done.Op = "add_entity" =>
        /\ Registered(Queued) # {}
        /\ \A event \in Registered(Queued) :
              /\ event.CallTime >= Done.now
              /\ (event.CallTime - JitteredPoint(Done.first_time)) % DayTicks = 0

\* The entity is added a day and a half in: the jittered point, a quarter
\* of the day, is moved by the day that has passed and, still lying before
\* Time, by one day more.
C36_Witness ==
    /\ Done.Op = "add_entity"
    /\ Done.now = DayTicks + DayTicks \div 2
    /\ Done.first_time = <<0, DayTicks>>
    /\ JitteredPoint(Done.first_time) = DayTicks \div 4
    /\ \A event \in Registered(Queued) : event.CallTime = 2 * DayTicks + DayTicks \div 4

\* ------------------------------------------ the halves of the jitter cycle
\* The offset lies in [0.5, 1], the upper half; otherwise in [0, 0.5).
UpperHalf(offset) == 2 * offset >= JitterUnits

\* C37: successive jitter offsets alternate between the lower half [0, 0.5)
\* and the upper half [0.5, 1]: of every two consecutive jitter_time calls,
\* across the wrap-around of the 21-entry cycle as well, one takes its
\* offset from the one half and the next from the other.  G_LAST_JITTER is
\* the place of the offset the call before took.
C37_JitterAlternates ==
    [][(JitterCalls >= 1 /\ JitterCalls' = JitterCalls + 1)
        => UpperHalf(G_JITTER[G_LAST_JITTER']) # UpperHalf(G_JITTER[G_LAST_JITTER])]_vars

\* ------------------------------------------ the two sides of a trade
\* C38: an incoming order never transacts against a resting order of the
\* same FirmGID.  The fills of an operation come in pairs, the incoming
\* order's and then the resting order's: the two are never of one firm.
C38_NoSelfTrade ==
    \A j \in 1..(Len(FillsOf(Accounting)) \div 2) :
        FillsOf(Accounting)[2 * j - 1].FirmGID # FillsOf(Accounting)[2 * j].FirmGID

\* ------------------------------------------ the two queues together
\* C39: after every add_buy, add_sell or remove_order the book is not
\* crossed: when both queues hold orders, the best bid, the head of BuyList,
\* is strictly below the best ask, the head of SellList.
C39_BookNotCrossed ==
    (Len(BuyList) > 0 /\ Len(SellList) > 0) => BuyList[1].Price < SellList[1].Price

\* An incoming order has traded and both queues hold orders afterwards.
C39_Witness ==
    /\ Len(BuyList) > 0
    /\ Len(SellList) > 0
    /\ Len(FillsOf(Accounting)) > 0

\* ------------------------------------------ the outbound client messages
\* C40: the client messages queued with queue_message are delivered by
\* successive process() calls in the order they were queued, first in first
\* out, as the inbound commands are: the process() call that delivers a
\* message takes the one at the head of ClientMessages and leaves the rest
\* in their order.
C40_MessagesFIFO ==
    [][(Done'.Op = "process" /\ Done'.unit = "message")
        => ClientMessages' = Tail(ClientMessages)]_vars
====
